---- MODULE Spec2Model ----
(***************************************************************************)
(* A model of the WhatsApp anime-character detector plugin                 *)
(* (src/anime-bot.js, the AnimeCharacterBot / WhatsAppAnimeBot pair that   *)
(* carries activationTimestamp and lastMessageTimestamp, lines 780-1373)   *)
(* and of the plugin hot-reload of the launcher (lines 55-102).            *)
(*                                                                         *)
(* Strings are sequences of one-character strings, so that trim, the digit *)
(* test, parseInt and the asterisk extraction are computed, not assumed.   *)
(* Time is Date.now()/1000 in whole seconds.                               *)
(***************************************************************************)
EXTENDS Integers, Sequences, FiniteSets, TLC

(***************************************************************************)
(* Bounds of the model.                                                    *)
(***************************************************************************)
MaxDeliveries == 3      \* messages delivered in one run, replays included
MaxBatchLen == 2        \* messages in one messages.upsert batch
MaxHandlers == 2        \* invocations of the handler suspended at one time
MaxReloads == 1         \* plugin hot-reloads in one run
MaxEvents == 1          \* events of the surroundings in one run: a hot-reload, a
                        \* failing transport call, a change of the transport's
                        \* group list, a second passing on the clock

(***************************************************************************)
(* Program constants.                                                      *)
(***************************************************************************)
StartTime == 100        \* the clock when the agent starts (any value > MaxAge)
MaxAge == 30            \* staleness window in seconds
DedupCapacity == 200    \* processedMessages keeps this many IDs

\* null, where the program holds a JID or null
Null == [user |-> "", server |-> ""]

(***************************************************************************)
(* Characters and strings.                                                 *)
(***************************************************************************)
Digits == {"0", "1", "2", "3", "4", "5", "6", "7", "8", "9"}
Whitespace == {" "}
\* the separator class of extractPotentialCharacters, without whitespace
Separators == {"/", "-", "|", ",", ";", ":"}
\* letters the allow-list of extractContentBetweenAsterisks keeps
Letters == {"a", "b", "c", "s", "t", "u", "x", "h", "i"}

DigitValue(c) ==
    CASE c = "0" -> 0 [] c = "1" -> 1 [] c = "2" -> 2 [] c = "3" -> 3
      [] c = "4" -> 4 [] c = "5" -> 5 [] c = "6" -> 6 [] c = "7" -> 7
      [] c = "8" -> 8 [] OTHER -> 9

RECURSIVE TrimStart(_)
TrimStart(t) ==
    IF t # <<>> /\ Head(t) \in Whitespace THEN TrimStart(Tail(t)) ELSE t

RECURSIVE TrimEnd(_)
TrimEnd(t) ==
    IF t # <<>> /\ t[Len(t)] \in Whitespace
    THEN TrimEnd(SubSeq(t, 1, Len(t) - 1))
    ELSE t

\* String.prototype.trim
Trim(t) == TrimEnd(TrimStart(t))

\* /^\d+$/.test(s)
IsDigits(s) == s # <<>> /\ \A i \in 1..Len(s) : s[i] \in Digits

\* parseInt(s) of an all-digits string
RECURSIVE ParseInt(_)
ParseInt(s) ==
    IF s = <<>> THEN 0
    ELSE 10 * ParseInt(SubSeq(s, 1, Len(s) - 1)) + DigitValue(s[Len(s)])

CmdActivate == <<".", "a">>
CmdActivateAlias == <<".", "ar_alef", "ar_beh", "ar_dal", "ar_alef">>
CmdDeactivate == <<".", "x">>
CmdDeactivateAlias == <<".", "ar_waw", "ar_qaf", "ar_feh">>
CmdStatus == <<".", "s", "t", "a", "t", "u", "s">>
CmdStatusAlias == <<".", "ar_hah", "ar_alef", "ar_lam", "ar_teh">>

IsActivateCmd(text) == Trim(text) = CmdActivate \/ Trim(text) = CmdActivateAlias
IsDeactivateCmd(text) == Trim(text) = CmdDeactivate \/ Trim(text) = CmdDeactivateAlias
IsStatusCmd(text) == Trim(text) = CmdStatus \/ Trim(text) = CmdStatusAlias

(***************************************************************************)
(* Token extraction.                                                       *)
(***************************************************************************)
\* index of the first "*" of t at or after i, 0 when there is none
RECURSIVE NextStar(_, _)
NextStar(t, i) ==
    IF i > Len(t) THEN 0
    ELSE IF t[i] = "*" THEN i
    ELSE NextStar(t, i + 1)

\* a variant of MatchSpans in which the asterisk that closes a match may open
\* the next one
RECURSIVE MatchSpansOverlapping(_, _)
MatchSpansOverlapping(t, i) ==
    LET open == NextStar(t, i)
        close == IF open = 0 THEN 0 ELSE NextStar(t, open + 1)
    IN  IF open = 0 \/ close = 0 THEN <<>>
        ELSE IF close = open + 1 THEN MatchSpansOverlapping(t, close)
        ELSE <<SubSeq(t, open + 1, close - 1)>> \o MatchSpansOverlapping(t, close)

\* text.match(/\*([^*]+)\*/g), each match without its two asterisks
RECURSIVE MatchSpans(_, _)
MatchSpans(t, i) ==
    LET open == NextStar(t, i)
        close == IF open = 0 THEN 0 ELSE NextStar(t, open + 1)
    IN  IF open = 0 \/ close = 0 THEN <<>>
        ELSE IF close = open + 1 THEN MatchSpans(t, close)
        ELSE <<SubSeq(t, open + 1, close - 1)>> \o MatchSpans(t, close + 1)

\* matches.map(m => m.slice(1, -1)).join(' ')
RECURSIVE JoinSpace(_)
JoinSpace(ss) ==
    IF ss = <<>> THEN <<>>
    ELSE IF Len(ss) = 1 THEN ss[1]
    ELSE ss[1] \o <<" ">> \o JoinSpace(Tail(ss))

KeptChar(c) == c \in Letters \cup Whitespace \cup Separators

\* .replace(/\s+/g, ' ')
RECURSIVE CollapseSpaces(_)
CollapseSpaces(t) ==
    IF Len(t) < 2 THEN t
    ELSE IF t[1] \in Whitespace /\ t[2] \in Whitespace
    THEN CollapseSpaces(Tail(t))
    ELSE <<t[1]>> \o CollapseSpaces(Tail(t))

\* a variant of extractContentBetweenAsterisks that takes the whole text when
\* nothing matches
extractContentOrWholeText(text) ==
    LET matches == MatchSpans(text, 1)
    IN  Trim(CollapseSpaces(SelectSeq(
            IF matches = <<>> THEN text ELSE JoinSpace(matches), KeptChar)))

extractContentBetweenAsterisks(text) ==
    LET matches == MatchSpans(text, 1)
    IN  IF matches = <<>> THEN <<>>
        ELSE Trim(CollapseSpaces(SelectSeq(JoinSpace(matches), KeptChar)))

\* content.split(/[\s\/\-\|,;:]+/g).filter(Boolean)
RECURSIVE SplitWords(_, _)
SplitWords(t, word) ==
    IF t = <<>> THEN (IF word = <<>> THEN <<>> ELSE <<word>>)
    ELSE IF Head(t) \in Whitespace \cup Separators
    THEN (IF word = <<>> THEN <<>> ELSE <<word>>) \o SplitWords(Tail(t), <<>>)
    ELSE SplitWords(Tail(t), Append(word, Head(t)))

\* a variant of extractPotentialCharacters that drops the words a length rule
\* like that of classifyWord rejects
extractClassifiedCharacters(text) ==
    LET content == extractContentBetweenAsterisks(text)
        LongEnough(word) == Len(word) > 2
    IN  IF Trim(content) = <<>> THEN <<>>
        ELSE SelectSeq(SplitWords(content, <<>>), LongEnough)

extractPotentialCharacters(text) ==
    LET content == extractContentBetweenAsterisks(text)
    IN  IF Trim(content) = <<>> THEN <<>> ELSE SplitWords(content, <<>>)

(***************************************************************************)
(* Identities.  A JID "user@server" is the record [user, server]; a bare   *)
(* number is a JID with the empty server.                                  *)
(***************************************************************************)
Jid(user, server) == [user |-> user, server |-> server]

ownerNumbers == {"96176337375", "966584646464", "967771654273", "967739279014"}

OwnerJid == Jid("96176337375", "s.whatsapp.net")
StrangerJid == Jid("15550100", "s.whatsapp.net")
Group1 == Jid("g1", "g.us")
Group2 == Jid("g2", "g.us")

\* message.key.participant || message.key.remoteJid?.split('@')[0]
SenderNumber(m) ==
    IF m.participant # Null THEN m.participant ELSE Jid(m.remoteJid.user, "")

\* senderNumber.replace('@s.whatsapp.net', '')
CleanNumber(s) == IF s.server = "s.whatsapp.net" THEN Jid(s.user, "") ELSE s

\* a variant of isOwner that accepts every sender
isOwnerAnyone(senderNumber) == TRUE

isOwner(senderNumber) ==
    LET cleanNumber == CleanNumber(senderNumber)
    IN  cleanNumber.server = "" /\ cleanNumber.user \in ownerNumbers

\* `${message.key.remoteJid}-${message.key.id}-${messageTimestamp}`
MessageId(m) == <<m.remoteJid, m.id, m.ts>>

(***************************************************************************)
(* The inputs: what the transport can deliver.                             *)
(***************************************************************************)
OwnerChat == [remoteJid |-> OwnerJid, participant |-> Null]
Member1 == [remoteJid |-> Group1, participant |-> StrangerJid]
Member2 == [remoteJid |-> Group2, participant |-> StrangerJid]

Sources == { OwnerChat, Member1, Member2 }

TokenText == <<"*", "a", "*">>
PlainText == <<"h", "i">>
\* '*a*b*c*'
AlternatingText == <<"*", "a", "*", "b", "*", "c", "*">>
\* two adjacent asterisks and no closing one
UnpairedText == <<"*", "*", "h">>

\* what each source sends in the model
TextsOf(src) ==
    IF src = OwnerChat
    THEN { CmdActivate, CmdDeactivate, CmdStatus, <<"1">>, <<"2">> }
    ELSE IF src = Member1
    THEN { CmdActivateAlias, CmdDeactivate, CmdStatusAlias, <<"1">>, TokenText,
           UnpairedText, <<>> }
    ELSE { TokenText }

Texts == UNION { TextsOf(src) : src \in Sources }

\* age in seconds of a message when the transport delivers it
Ages == {0, 1, MaxAge + 1}

\* the group lists groupFetchAllParticipating can return, in Object.entries order
GroupLists == { <<Group1, Group2>>, <<Group2>> }

Insts == 1..(MaxReloads + 1)

VARIABLES
    now,                  \* Date.now() / 1000
    groups,               \* the transport's participating groups
    cur,                  \* currentAnimeBot: the instance whose handler is registered
    isActive,             \* per instance
    selectedGroup,        \* per instance
    activationTimestamp,  \* per instance
    processedMessages,    \* per instance: the Set, in insertion order
    lastMessageTimestamp, \* per instance
    lastProcessedMessage, \* per instance (its AnimeCharacterBot)
    deliveries,           \* every message the transport delivered, in order
    handlers,             \* the running invocations of messageHandler
    timers,               \* the pending correction timers
    outbound,             \* the sendMessage calls that succeeded, in order
    events,               \* events of the surroundings so far
    inserted,             \* per instance: IDs ever added to processedMessages
    fx,                   \* per delivery: how it was examined and what it caused
    inForce,              \* per instance: the stamp of the activation in force
    engine,               \* the Mistake Engine at work on one text, outside the handler
    resolver              \* an AnimeCharacterBot's name lookup, outside the handler

vars ==
    << now, groups, cur, isActive, selectedGroup, activationTimestamp,
       processedMessages, lastMessageTimestamp, lastProcessedMessage,
       deliveries, handlers, timers, outbound, events,
       inserted, fx, inForce, engine, resolver >>

session == << isActive, selectedGroup, activationTimestamp >>

\* new WhatsAppAnimeBot(sock): the fields of a fresh instance
Constructed ==
    /\ now = StartTime
    /\ groups = <<Group1, Group2>>
    /\ cur = 1
    /\ isActive = [i \in Insts |-> FALSE]
    /\ selectedGroup = [i \in Insts |-> Null]
    /\ activationTimestamp = [i \in Insts |-> 0]
    /\ processedMessages = [i \in Insts |-> <<>>]
    /\ lastMessageTimestamp = [i \in Insts |-> 0]
    /\ lastProcessedMessage = [i \in Insts |-> <<>>]
    /\ deliveries = <<>>
    /\ handlers = {}
    /\ timers = {}
    /\ outbound = <<>>
    /\ events = 0
    /\ inserted = [i \in Insts |-> 0]
    /\ fx = <<>>
    /\ inForce = [i \in Insts |-> 0]

(***************************************************************************)
(* The pieces of messageHandler.                                           *)
(***************************************************************************)
\* a variant of FromMeOrNoContent that lets the agent's own messages through
NoContent(m) == m.text = <<>>

\* if (message.key.fromMe || !msgContent)
FromMeOrNoContent(m) == m.fromMe \/ m.text = <<>>

\* a variant of IsStale with the operands of the subtraction exchanged
IsStaleSwapped(currentTime, messageTimestamp) == messageTimestamp - currentTime > MaxAge

\* messageAge > 30
IsStale(currentTime, messageTimestamp) == currentTime - messageTimestamp > MaxAge

\* a variant of IsOlder that lets every message through
IsOlderNever(messageTimestamp, last) == FALSE

\* a variant of IsOlder that also skips a message as old as the newest one
IsOlderOrEqual(messageTimestamp, last) == messageTimestamp <= last

\* messageTimestamp < this.lastMessageTimestamp
IsOlder(messageTimestamp, last) == messageTimestamp < last

\* a variant of IsDuplicate that looks at the newest entry only
IsDuplicateOfNewest(processed, messageId) ==
    processed # <<>> /\ processed[Len(processed)] = messageId

\* this.processedMessages.has(messageId)
IsDuplicate(processed, messageId) ==
    \E k \in 1..Len(processed) : processed[k] = messageId

\* a variant of Remember that evicts the second-oldest entry
RememberEvictsSecond(processed, messageId) ==
    LET added == Append(processed, messageId)
    IN  IF Len(added) > DedupCapacity
        THEN <<Head(added)>> \o Tail(Tail(added))
        ELSE added

\* a variant of Remember that evicts one entry later
RememberOneMore(processed, messageId) ==
    LET added == Append(processed, messageId)
    IN  IF Len(added) > DedupCapacity + 1 THEN Tail(added) ELSE added

\* this.processedMessages.add(messageId), then the eviction of the oldest entry
Remember(processed, messageId) ==
    LET added == Append(processed, messageId)
    IN  IF Len(added) > DedupCapacity THEN Tail(added) ELSE added

Max(a, b) == IF a > b THEN a ELSE b

\* the three checks between the '.status' branch and processMessage
PassesGate(active, selected, activation, chatId, messageTimestamp) ==
    /\ active
    /\ ~(selected # Null /\ chatId # selected)
    /\ ~(messageTimestamp < activation)

\* a variant of Dispatch whose group selection lacks the !this.isActive test
DispatchWhileActive(m, active, selected, activation) ==
    LET content == Trim(m.text)
        owner == isOwner(SenderNumber(m))
    IN  IF IsActivateCmd(m.text) THEN (IF owner THEN "activate" ELSE "ignore")
        ELSE IF IsDeactivateCmd(m.text) THEN (IF owner THEN "deactivate" ELSE "ignore")
        ELSE IF owner /\ IsDigits(content) THEN "select"
        ELSE IF IsStatusCmd(m.text) THEN "status"
        ELSE IF PassesGate(active, selected, activation, m.remoteJid, m.ts)
        THEN "detect"
        ELSE "drop"

\* a variant of Dispatch whose '.x' branch lacks the owner check
DispatchUnguarded(m, active, selected, activation) ==
    LET content == Trim(m.text)
        owner == isOwner(SenderNumber(m))
    IN  IF IsActivateCmd(m.text) THEN (IF owner THEN "activate" ELSE "ignore")
        ELSE IF IsDeactivateCmd(m.text) THEN "deactivate"
        ELSE IF owner /\ IsDigits(content) /\ ~active THEN "select"
        ELSE IF IsStatusCmd(m.text) THEN "status"
        ELSE IF PassesGate(active, selected, activation, m.remoteJid, m.ts)
        THEN "detect"
        ELSE "drop"

\* which branch of the handler takes the message
Dispatch(m, active, selected, activation) ==
    LET content == Trim(m.text)
        owner == isOwner(SenderNumber(m))
    IN  IF IsActivateCmd(m.text) THEN (IF owner THEN "activate" ELSE "ignore")
        ELSE IF IsDeactivateCmd(m.text) THEN (IF owner THEN "deactivate" ELSE "ignore")
        ELSE IF owner /\ IsDigits(content) /\ ~active THEN "select"
        ELSE IF IsStatusCmd(m.text) THEN "status"
        ELSE IF PassesGate(active, selected, activation, m.remoteJid, m.ts)
        THEN "detect"
        ELSE "drop"

\* a variant of StatusBody that reports Inactive in every state
StatusBodyInactive(active, selected) == <<"Inactive">>

\* getStatus().status, as the pair (active, bound to a group)
StatusBody(active, selected) ==
    IF active THEN (IF selected # Null THEN <<"Active", "in selected group">> ELSE <<"Active">>)
    ELSE <<"Inactive">>

\* messageUpdate.messages.sort((a, b) => b.messageTimestamp - a.messageTimestamp):
\* most recent first, stable
RECURSIVE InsertDesc(_, _, _)
InsertDesc(sorted, d, msgs) ==
    IF sorted = <<>> THEN <<d>>
    ELSE IF msgs[Head(sorted)].ts >= msgs[d].ts
    THEN <<Head(sorted)>> \o InsertDesc(Tail(sorted), d, msgs)
    ELSE <<d>> \o sorted

RECURSIVE SortDesc(_, _)
SortDesc(batch, msgs) ==
    IF batch = <<>> THEN <<>>
    ELSE InsertDesc(SortDesc(SubSeq(batch, 1, Len(batch) - 1), msgs),
                    batch[Len(batch)], msgs)

(***************************************************************************)
(* The Mistake Engine.                                                     *)
(***************************************************************************)
typoChars == {"ar_alef", "ar_waw", "ar_yeh", "ar_heh", "ar_teh_marbuta", "ar_hamza"}

Shuffles(s) ==
    { p \in [1..Len(s) -> 1..Len(s)] : \A a, b \in 1..Len(s) : a # b => p[a] # p[b] }

Permuted(s, p) == [k \in 1..Len(s) |-> s[p[k]]]

\* Math.floor(n * 0.7) in double arithmetic.  The double 0.7 is a little less
\* than 7/10 (by 0.2 * 2^-52), so when 7n/10 is a whole number K the exact
\* product lies n * 0.2 * 2^-52 below K; with 2^e < K < 2^(e+1) the doubles
\* below K are 2^(e-52) apart, and the product rounds to the double below K,
\* whose floor is K - 1, when it lies more than half that distance below K
\* (4n > 10 * 2^e; n = 90, 170, 180, ...).  A tie rounds to K.
Floor07(n) ==
    LET K == (7 * n) \div 10
        roundsBelow ==
            /\ n % 10 = 0
            /\ \E e \in 0..20 : 2^e <= K /\ K < 2^(e + 1) /\ 4 * n > 10 * 2^e
    IN  IF roundsBelow THEN K - 1 ELSE K

\* a variant of CanTypo that also changes a token of two characters
CanTypoShort(char) == Len(char) > 1

\* if (char.length > 2)
CanTypo(char) == Len(char) > 2

\* a variant of ArgumentAfter in which `characters` is the argument itself
\* (const characters = originalCharacters)
ArgumentAliased(originalCharacters, characters) == characters

\* const characters = [...originalCharacters]: the argument array as the call
\* leaves it, whatever was done to the copy `characters`
ArgumentAfter(originalCharacters, characters) == originalCharacters

\* case 'partial_response': the first keepCount entries of the copy as the
\* sort left it (shuffled = characters in the order p)
partialResponse(characters, p) ==
    LET keepCount == Max(1, Floor07(Len(characters)))
        shuffled == Permuted(characters, p)
    IN  SubSeq(shuffled, 1, keepCount)

\* every result generateMistakeResponse can return for these tokens, with the
\* argument array as the call leaves it (given) and the branch the call took
\* (branch: "typo", or the value of its local mistakeType)
generateMistakeResponse(originalCharacters) ==
    LET n == Len(originalCharacters)
        typoOf(typoIndex) ==
            LET char == originalCharacters[typoIndex]
            IN  IF CanTypo(char)
                THEN { [originalCharacters EXCEPT
                           ![typoIndex] = [char EXCEPT ![typoPos] = typoChar]] :
                       typoPos \in 1..Len(char), typoChar \in typoChars }
                ELSE { originalCharacters }
        typos ==
            { [characters |-> c, mistakeType |-> "typo", isMistake |-> TRUE,
               given |-> ArgumentAfter(originalCharacters, c), branch |-> "typo"] :
              c \in UNION { typoOf(typoIndex) : typoIndex \in 1..n } }
        other(characters, mistakeType) ==
            [characters |-> characters, mistakeType |-> "other", isMistake |-> TRUE,
             given |-> ArgumentAfter(originalCharacters, characters),
             branch |-> mistakeType]
        partial ==
            { other(partialResponse(originalCharacters, p), "partial_response") :
              p \in Shuffles(originalCharacters) }
        reorder ==
            { other(Permuted(originalCharacters, p), "reorder") :
              p \in Shuffles(originalCharacters) }
        delayed == { other(originalCharacters, "delay_mistake") }
    IN  typos \cup partial \cup reorder \cup delayed

\* originalCharacters.join(' ')
generateCorrectionMessage(originalCharacters) == JoinSpace(originalCharacters)

\* formatResponse when shouldMakeMistake() is true and generateMistakeResponse
\* returned mistakeResult
MistakenPlan(mistakeResult) ==
    [text |-> JoinSpace(mistakeResult.characters),
     characterCount |-> Len(mistakeResult.characters),
     isMistake |-> TRUE, mistakeType |-> mistakeResult.mistakeType,
     originalCharacters |-> mistakeResult.given]

\* formatResponse when shouldMakeMistake() is false
PlainPlan(characterNames) ==
    [text |-> JoinSpace(characterNames), characterCount |-> Len(characterNames),
     isMistake |-> FALSE, mistakeType |-> "none", originalCharacters |-> <<>>]

\* every plan formatResponse can return for these tokens
formatResponse(characterNames) ==
    { MistakenPlan(r) : r \in generateMistakeResponse(characterNames) }
    \cup
    { PlainPlan(characterNames) }

baseDelay == 648
perCharacterDelay == 648
\* Math.floor(Math.random() * 405) is one of 0 .. 404
randomVariationRange == 405

\* the constants of the other copy of getAdaptiveDelay
baseDelayOther == 800
perCharacterDelayOther == 800
randomVariationRangeOther == 500

\* a variant of getAdaptiveDelay that adds nothing per character
getAdaptiveDelayFlat(characterCount, isMistake, mistakeType, randomVariation) ==
    LET calculatedDelay == baseDelay + randomVariation
    IN  IF isMistake /\ mistakeType = "delay_mistake"
        THEN calculatedDelay * 3
        ELSE calculatedDelay

\* getAdaptiveDelay for the draw randomVariation of Math.random
getAdaptiveDelay(characterCount, isMistake, mistakeType, randomVariation) ==
    LET calculatedDelay ==
            baseDelay + ((characterCount - 1) * perCharacterDelay) + randomVariation
    IN  IF isMistake /\ mistakeType = "delay_mistake"
        THEN calculatedDelay * 3
        ELSE calculatedDelay

\* the other copy of getAdaptiveDelay
getAdaptiveDelayOther(characterCount, isMistake, mistakeType, randomVariation) ==
    LET calculatedDelay ==
            baseDelayOther + ((characterCount - 1) * perCharacterDelayOther)
            + randomVariation
    IN  IF isMistake /\ mistakeType = "delay_mistake"
        THEN calculatedDelay * 3
        ELSE calculatedDelay

\* the draws of Math.floor(Math.random() * 405) the model takes: both ends
\* and a value between
RandomVariations == {0, randomVariationRange \div 2, randomVariationRange - 1}

\* the token counts the delay is compared over
MaxCount == 6

NoPlan ==
    [text |-> <<>>, characterCount |-> 0, isMistake |-> FALSE,
     mistakeType |-> "none", originalCharacters |-> <<>>]

NoMistake ==
    [characters |-> <<>>, mistakeType |-> "none", isMistake |-> FALSE, given |-> <<>>,
     branch |-> "none"]

\* the Mistake Engine before it is given a text
NoEngine ==
    [stage |-> "idle", text |-> <<>>, characterNames |-> <<>>, mistake |-> NoMistake,
     responseData |-> NoPlan, randomVariation |-> 0, delay |-> 0,
     correctionText |-> <<>>]

\* the name lookup before it is called
NoResolver == [stage |-> "idle"]

Init == Constructed /\ engine = NoEngine /\ resolver = NoResolver

(***************************************************************************)
(* One invocation of messageHandler.  It runs without interruption from    *)
(* one await to the next; pc names the await it is suspended in.           *)
(***************************************************************************)
NoSend == [to |-> Null, kind |-> "none", body |-> <<>>]

NewHandler(inst, batch) ==
    [inst |-> inst, batch |-> batch, pos |-> 1, pc |-> "loop",
     groupsL |-> <<>>, plan |-> NoPlan, out |-> NoSend, after |-> "next"]

\* continue: the next message of the batch
NextMessage(h) ==
    [h EXCEPT !.pos = @ + 1, !.pc = "loop", !.groupsL = <<>>,
              !.plan = NoPlan, !.out = NoSend, !.after = "next"]

\* what the handler finds when it examines a message
NoSnap ==
    [active |-> FALSE, selected |-> Null, activation |-> 0, last |-> 0,
     lastText |-> <<>>, stamp |-> 0, at |-> 0, listing |-> <<>>]

\* the session as the handler leaves it when it returns from the batch
NoEnd == [reached |-> FALSE, active |-> FALSE, selected |-> Null]

\* the record of one delivery: how it was examined and what it caused
NewFx(inst) ==
    [outcome |-> "pending", branch |-> "none", inst |-> inst, seq |-> 0,
     changes |-> 0, touched |-> FALSE, failed |-> FALSE, done |-> FALSE,
     resumed |-> FALSE, bound |-> Null, snap |-> NoSnap, end |-> NoEnd]

\* the newest group list the agent has sent out, <<>> when it has sent none
RECURSIVE LastListing(_)
LastListing(sent) ==
    IF sent = <<>> THEN <<>>
    ELSE IF sent[Len(sent)].kind = "listing" THEN sent[Len(sent)].body
    ELSE LastListing(SubSeq(sent, 1, Len(sent) - 1))

\* the fields the uninterrupted part of the handler reads and writes
Shared ==
    [isActive |-> isActive, selectedGroup |-> selectedGroup,
     activationTimestamp |-> activationTimestamp,
     processedMessages |-> processedMessages,
     lastMessageTimestamp |-> lastMessageTimestamp,
     lastProcessedMessage |-> lastProcessedMessage,
     inserted |-> inserted, inForce |-> inForce, fx |-> fx, sent |-> outbound]

\* a variant of ReturnsNull that lets a repeated text through
ReturnsNullIfBlank(messageText, lastProcessed) == Trim(messageText) = <<>>

\* if (!messageText.trim() || messageText === this.lastProcessedMessage)
\*     return null
ReturnsNull(messageText, lastProcessed) ==
    Trim(messageText) = <<>> \/ messageText = lastProcessed

\* a variant of Deactivate that keeps the bound group
DeactivateKeepsGroup(S, i) == [S EXCEPT !.isActive = [@ EXCEPT ![i] = FALSE]]

\* this.isActive = false; this.selectedGroup = null
Deactivate(S, i) ==
    [S EXCEPT !.isActive = [@ EXCEPT ![i] = FALSE],
              !.selectedGroup = [@ EXCEPT ![i] = Null]]

\* the body of the for loop for message h.batch[h.pos], up to its first await
\* or its continue
ExamineMessage(S, h, msgs, currentTime) ==
    LET d == h.batch[h.pos]
        m == msgs[d]
        i == h.inst
        chatId == m.remoteJid
        messageId == MessageId(m)
        outcome ==
            IF FromMeOrNoContent(m) THEN "self"
            ELSE IF IsStale(currentTime, m.ts) THEN "stale"
            ELSE IF IsOlder(m.ts, S.lastMessageTimestamp[i]) THEN "old"
            ELSE IF IsDuplicate(S.processedMessages[i], messageId) THEN "dup"
            ELSE "in"
        branch ==
            IF outcome = "in"
            THEN Dispatch(m, S.isActive[i], S.selectedGroup[i], S.activationTimestamp[i])
            ELSE "skip"
        \* processMessage up to its await: it returns null at once for an empty
        \* or repeated text, and awaits the extraction otherwise
        returnsNull == ReturnsNull(m.text, S.lastProcessedMessage[i])
        suspended == branch \in {"activate", "deactivate", "select", "status", "detect"}
        snap ==
            [active |-> S.isActive[i], selected |-> S.selectedGroup[i],
             activation |-> S.activationTimestamp[i],
             last |-> S.lastMessageTimestamp[i],
             lastText |-> S.lastProcessedMessage[i],
             stamp |-> S.inForce[i], at |-> currentTime,
             listing |-> LastListing(S.sent)]
        S1 == IF branch = "deactivate" THEN Deactivate(S, i) ELSE S
        changed ==
            \/ S1.isActive # S.isActive
            \/ S1.selectedGroup # S.selectedGroup
            \/ S1.activationTimestamp # S.activationTimestamp
        h2 ==
            IF branch = "activate" THEN [h EXCEPT !.pc = "a_fetch"]
            ELSE IF branch = "deactivate"
            THEN [h EXCEPT !.pc = "send",
                           !.out = [to |-> chatId, kind |-> "deactivated", body |-> <<>>]]
            ELSE IF branch = "select" THEN [h EXCEPT !.pc = "sel_fetch"]
            ELSE IF branch = "status"
            THEN [h EXCEPT !.pc = "send",
                           !.out = [to |-> chatId, kind |-> "status",
                                    body |-> StatusBody(S.isActive[i], S.selectedGroup[i])]]
            ELSE IF branch = "detect"
            THEN [h EXCEPT !.pc = IF returnsNull THEN "pm_null" ELSE "pm"]
            ELSE h
        processed2 ==
            IF outcome = "in"
            THEN [S.processedMessages EXCEPT ![i] = Remember(@, messageId)]
            ELSE S.processedMessages
        last2 ==
            IF outcome = "in"
            THEN [S.lastMessageTimestamp EXCEPT ![i] = Max(@, m.ts)]
            ELSE S.lastMessageTimestamp
        touched == processed2 # S.processedMessages \/ last2 # S.lastMessageTimestamp
        S2 ==
            [S1 EXCEPT
               !.processedMessages = processed2,
               !.lastMessageTimestamp = last2,
               !.inserted = IF outcome = "in" THEN [@ EXCEPT ![i] = @ + 1] ELSE @,
               !.inForce = IF branch = "deactivate" THEN [@ EXCEPT ![i] = 0] ELSE @,
               !.fx = [@ EXCEPT ![d] =
                         [@ EXCEPT !.outcome = outcome, !.branch = branch, !.inst = i,
                                   !.seq = IF outcome = "in" THEN S.inserted[i] + 1 ELSE 0,
                                   !.changes = @ + (IF changed THEN 1 ELSE 0),
                                   !.touched = touched,
                                   !.done = ~suspended, !.snap = snap]]]
    IN  [st |-> S2, h |-> h2, suspended |-> suspended]

\* the for loop from h.pos on, up to the first await: the state it leaves and
\* the handler as suspended there (none when the batch is finished)
RECURSIVE RunLoop(_, _, _, _)
RunLoop(S, h, msgs, currentTime) ==
    IF h.pos > Len(h.batch)
    THEN [st |-> [S EXCEPT !.fx =
                    [d \in DOMAIN @ |->
                        IF \E k \in 1..Len(h.batch) : h.batch[k] = d
                        THEN [@[d] EXCEPT !.end = [reached |-> TRUE,
                                                   active |-> S.isActive[h.inst],
                                                   selected |-> S.selectedGroup[h.inst]]]
                        ELSE @[d]]],
          hs |-> {}]
    ELSE LET r == ExamineMessage(S, h, msgs, currentTime)
         IN  IF r.suspended THEN [st |-> r.st, hs |-> {r.h}]
             ELSE RunLoop(r.st, NextMessage(h), msgs, currentTime)

\* the handler resumes from the await of message h.batch[h.pos], is done with
\* that message and goes on with the loop
Continue(S, h) ==
    LET d == h.batch[h.pos]
        S1 == [S EXCEPT !.fx = [@ EXCEPT ![d] = [@ EXCEPT !.done = TRUE]]]
    IN  RunLoop(S1, NextMessage(h), deliveries, now)

\* a variant of Caught without the try: the rejection ends the invocation
Uncaught(S, h) == [st |-> S, hs |-> {}]

\* a transport call of message h.batch[h.pos] threw: the catch around the
\* message logs the error and the loop goes on with the next message
Caught(S, h) == Continue(S, h)

\* the shared fields after a step whose uninterrupted part left them as S
Publish(S) ==
    /\ isActive' = S.isActive
    /\ selectedGroup' = S.selectedGroup
    /\ activationTimestamp' = S.activationTimestamp
    /\ processedMessages' = S.processedMessages
    /\ lastMessageTimestamp' = S.lastMessageTimestamp
    /\ lastProcessedMessage' = S.lastProcessedMessage
    /\ inserted' = S.inserted
    /\ inForce' = S.inForce
    /\ fx' = S.fx

(***************************************************************************)
(* The transport delivers a batch: sock.ev emits messages.upsert and the   *)
(* registered handler runs up to its first await.                          *)
(***************************************************************************)
\* a message of a batch: a new one (of = 0), or a redelivery of message `of`
Shapes ==
    { s \in [of : {0}, src : Sources, text : Texts, age : Ages, fromMe : BOOLEAN] :
        /\ s.text \in TextsOf(s.src)
        /\ s.age > 0 \/ s.fromMe =>
               \/ s.src = OwnerChat /\ s.text = CmdDeactivate
               \/ s.src = Member1 /\ s.text = TokenText
        /\ s.fromMe => s.age = 0 }
    \cup
    [of : 1..MaxDeliveries, src : {[remoteJid |-> Null, participant |-> Null]},
     text : {<<>>}, age : {0}, fromMe : {FALSE}]

RECURSIVE Build(_, _, _)
Build(shapes, msgs, currentTime) ==
    IF shapes = <<>> THEN msgs
    ELSE LET s == Head(shapes)
             m == IF s.of > 0 THEN msgs[s.of]
                  ELSE [remoteJid |-> s.src.remoteJid, participant |-> s.src.participant,
                        id |-> Len(msgs) + 1, fromMe |-> s.fromMe,
                        ts |-> currentTime - s.age, text |-> s.text]
         IN  Build(Tail(shapes), Append(msgs, m), currentTime)

\* whether a transport call succeeds
Oks == IF events < MaxEvents THEN BOOLEAN ELSE {TRUE}

Deliver ==
    \E n \in 1..MaxBatchLen :
        /\ Len(deliveries) + n <= MaxDeliveries
        /\ Cardinality(handlers) < MaxHandlers
        /\ \E shapes \in [1..n -> Shapes] :
            /\ \A k \in 1..n : shapes[k].of < Len(deliveries) + k
            /\ LET msgs == Build(shapes, deliveries, now)
                   batch == [k \in 1..n |-> Len(deliveries) + k]
                   h == NewHandler(cur, SortDesc(batch, msgs))
                   S == [Shared EXCEPT !.fx = @ \o [k \in 1..n |-> NewFx(cur)]]
                   r == RunLoop(S, h, msgs, now)
               IN  /\ deliveries' = msgs
                   /\ handlers' = handlers \cup r.hs
                   /\ Publish(r.st)
        /\ UNCHANGED << resolver, engine, now, groups, cur, timers, outbound, events >>

\* await this.getGroupsList() of the '.a' branch returns
ListFetched ==
    \E h \in handlers, ok \in Oks :
        /\ h.pc = "a_fetch"
        /\ LET d == h.batch[h.pos]
               chatId == deliveries[d].remoteJid
               list == IF ok THEN groups ELSE <<>>
               h2 == [h EXCEPT !.pc = "send", !.groupsL = list,
                               !.out = IF list = <<>>
                                       THEN [to |-> chatId, kind |-> "nogroups", body |-> <<>>]
                                       ELSE [to |-> chatId, kind |-> "listing", body |-> list]]
           IN  /\ handlers' = (handlers \ {h}) \cup {h2}
               /\ events' = IF ok THEN events ELSE events + 1
               /\ fx' = [fx EXCEPT ![d] = [@ EXCEPT !.failed = @ \/ ~ok]]
        /\ UNCHANGED << resolver, engine, now, groups, cur, isActive, selectedGroup, activationTimestamp,
                        processedMessages, lastMessageTimestamp, lastProcessedMessage,
                        deliveries, timers, outbound, inserted, inForce >>

\* await this.getGroupsList() of the group selection returns; a valid number
\* binds and activates, then await this.sock.chatModify({ clear: 'all' }, ...)
\* returns or throws (the chatModify and the send that follows it are one
\* suspension: nothing of this invocation runs between them)
SelectFetched ==
    \E h \in handlers, ok \in Oks, cleared \in Oks :
        /\ h.pc = "sel_fetch"
        /\ ok \/ cleared
        /\ LET d == h.batch[h.pos]
               m == deliveries[d]
               i == h.inst
               chatId == m.remoteJid
               list == IF ok THEN groups ELSE <<>>
               selectedIndex == ParseInt(Trim(m.text)) - 1
               valid == selectedIndex >= 0 /\ selectedIndex < Len(list)
               group == list[selectedIndex + 1]
               h2 == IF valid /\ cleared
                     THEN [h EXCEPT !.pc = "send", !.groupsL = list,
                                    !.out = [to |-> chatId, kind |-> "activated",
                                             body |-> <<group>>]]
                     ELSE IF valid
                     THEN [h EXCEPT !.pc = "send", !.groupsL = list, !.after = "activated",
                                    !.out = [to |-> chatId, kind |-> "clearfailed",
                                             body |-> <<group>>]]
                     ELSE [h EXCEPT !.pc = "send", !.groupsL = list,
                                    !.out = [to |-> chatId, kind |-> "invalid", body |-> <<>>]]
               active2 == IF valid THEN [isActive EXCEPT ![i] = TRUE] ELSE isActive
               selected2 ==
                   IF valid THEN [selectedGroup EXCEPT ![i] = list[selectedIndex + 1]]
                   ELSE selectedGroup
               activation2 ==
                   IF valid THEN [activationTimestamp EXCEPT ![i] = now]
                   ELSE activationTimestamp
               changed == <<active2, selected2, activation2>> # session
           IN  /\ handlers' = (handlers \ {h}) \cup {h2}
               /\ isActive' = active2
               /\ selectedGroup' = selected2
               /\ activationTimestamp' = activation2
               /\ inForce' = IF valid THEN [inForce EXCEPT ![i] = now] ELSE inForce
               /\ events' = IF ok /\ (cleared \/ ~valid) THEN events ELSE events + 1
               /\ fx' = [fx EXCEPT ![d] =
                           [@ EXCEPT !.failed = @ \/ ~ok \/ (valid /\ ~cleared),
                                     !.resumed = TRUE,
                                     !.bound = IF valid THEN list[selectedIndex + 1] ELSE Null,
                                     !.changes = @ + (IF changed THEN 1 ELSE 0)]]
        /\ UNCHANGED << resolver, engine, now, groups, cur, processedMessages, lastMessageTimestamp,
                        lastProcessedMessage, deliveries, timers, outbound,
                        inserted >>

\* await this.animeBot.processMessage resumes.  With a null result, or with no
\* token in the text, the loop goes on; otherwise processMessage records the
\* text, the handler plans the reply and sleeps, then hands the reply to
\* sendMessage (the sleep and the send are one suspension: nothing of this
\* invocation runs between them)
Planned ==
    \E h \in handlers :
        /\ h.pc \in {"pm", "pm_null"}
        /\ LET d == h.batch[h.pos]
               m == deliveries[d]
               i == h.inst
               characterNames ==
                   IF h.pc = "pm_null" THEN <<>> ELSE extractPotentialCharacters(m.text)
               r == Continue(Shared, h)
           IN  IF characterNames = <<>>
               THEN /\ handlers' = (handlers \ {h}) \cup r.hs
                    /\ Publish(r.st)
               ELSE /\ \E responseData \in formatResponse(characterNames) :
                           handlers' =
                               (handlers \ {h})
                               \cup {[h EXCEPT !.pc = "send", !.plan = responseData,
                                               !.out = [to |-> m.remoteJid, kind |-> "reply",
                                                        body |-> responseData.text]]}
                    /\ Publish([Shared EXCEPT
                                  !.lastProcessedMessage = [@ EXCEPT ![i] = m.text]])
        /\ UNCHANGED << resolver, engine, now, groups, cur, deliveries, timers, outbound, events >>

\* a variant of GoesOut in which the refusal of a group number is not sent
GoesOutUnlessRefusal(h, S, ok) == ok /\ h.out.kind # "invalid"

\* a variant of GoesOut in which a reply is dropped once the instance is no
\* longer active
GoesOutIfActive(h, S, ok) == ok /\ (h.out.kind = "reply" => S.isActive[h.inst])

\* the handler resumes from the sleep and from sendMessage(chatId, ...): the
\* message has gone out unless the transport call threw; isActive and
\* selectedGroup are not read again
GoesOut(h, S, ok) == ok

\* a variant of MayCorrect without the test of responseData.isMistake
MayCorrectAnyReply(ok, h) == ok /\ h.out.kind = "reply"

\* the lines after the reply's sendMessage are reached (it did not throw) and
\* if (responseData.isMistake) holds: shouldCorrectMistake() is consulted
MayCorrect(ok, h) == ok /\ h.out.kind = "reply" /\ h.plan.isMistake

\* await this.sock.sendMessage(chatId, ...) returns or throws; a throw is caught
\* by the try around the message and the loop goes on
SendDone ==
    \E h \in handlers, ok \in Oks :
        /\ h.pc = "send"
        /\ LET d == h.batch[h.pos]
               sent == [to |-> h.out.to, kind |-> h.out.kind, body |-> h.out.body, d |-> d]
               more == ok /\ h.after = "activated"
               outbound2 == IF GoesOut(h, Shared, ok) THEN Append(outbound, sent) ELSE outbound
               S == [Shared EXCEPT !.fx = [@ EXCEPT ![d] = [@ EXCEPT !.failed = @ \/ ~ok]],
                                   !.sent = outbound2]
               r == IF ok THEN Continue(S, h) ELSE Caught(S, h)
           IN  /\ outbound' = outbound2
               /\ events' = IF ok THEN events ELSE events + 1
               /\ IF more
                  THEN /\ handlers' =
                            (handlers \ {h})
                            \cup {[h EXCEPT !.after = "next",
                                            !.out = [to |-> h.out.to, kind |-> "activated",
                                                     body |-> h.out.body]]}
                       /\ Publish(Shared)
                       /\ timers' = timers
                  ELSE /\ handlers' = (handlers \ {h}) \cup r.hs
                       /\ Publish(r.st)
                       \* if (responseData.isMistake) if (shouldCorrectMistake()) setTimeout(...)
                       /\ \E correct \in IF MayCorrect(ok, h) THEN BOOLEAN ELSE {FALSE} :
                              timers' = IF correct
                                        THEN timers \cup
                                             {[to |-> h.out.to, d |-> d,
                                               body |-> generateCorrectionMessage(
                                                            h.plan.originalCharacters)]}
                                        ELSE timers
        /\ UNCHANGED << resolver, engine, now, groups, cur, deliveries >>

\* a variant of CorrectionSent that drops the correction once the instance
\* that scheduled it is no longer active
CorrectionSentIfActive(t, S, ok) == ok /\ S.isActive[S.fx[t.d].inst]

\* the callback's sendMessage(chatId, { text: correctionText }) goes out
\* unless the transport call throws; the session is not consulted
CorrectionSent(t, S, ok) == ok

\* a correction timer fires; a failing send is swallowed
CorrectionFired ==
    \E t \in timers, ok \in Oks :
        /\ timers' = timers \ {t}
        /\ outbound' = IF CorrectionSent(t, Shared, ok)
                       THEN Append(outbound, [to |-> t.to, kind |-> "correction",
                                              body |-> t.body, d |-> t.d])
                       ELSE outbound
        /\ events' = IF ok THEN events ELSE events + 1
        /\ UNCHANGED << resolver, engine, now, groups, cur, isActive, selectedGroup, activationTimestamp,
                        processedMessages, lastMessageTimestamp, lastProcessedMessage,
                        deliveries, handlers, inserted, fx, inForce >>

(***************************************************************************)
(* The launcher's hot reload: a new WhatsAppAnimeBot replaces the current  *)
(* one; of the old state only `active` is carried over.                    *)
(***************************************************************************)
\* the fields of the replacement instance, from getStatus() of the current one
Restored(currentState) ==
    [isActive |-> currentState.active, selectedGroup |-> Null, activationTimestamp |-> 0]

HotReload ==
    /\ cur < MaxReloads + 1
    /\ events < MaxEvents
    /\ events' = events + 1
    /\ LET currentState == [active |-> isActive[cur], selectedGroup |-> selectedGroup[cur]]
           new == Restored(currentState)
       IN  /\ cur' = cur + 1
           /\ isActive' = [isActive EXCEPT ![cur + 1] = new.isActive]
           /\ selectedGroup' = [selectedGroup EXCEPT ![cur + 1] = new.selectedGroup]
           /\ activationTimestamp' =
                  [activationTimestamp EXCEPT ![cur + 1] = new.activationTimestamp]
           /\ inForce' = [inForce EXCEPT ![cur + 1] = IF isActive[cur] THEN inForce[cur] ELSE 0]
    /\ UNCHANGED << resolver, engine, now, groups, processedMessages, lastMessageTimestamp,
                    lastProcessedMessage, deliveries, handlers, timers, outbound,
                    inserted, fx >>

(***************************************************************************)
(* The environment.                                                        *)
(***************************************************************************)
GroupsChange ==
    /\ events < MaxEvents
    /\ events' = events + 1
    /\ groups' \in GroupLists \ {groups}
    /\ UNCHANGED << resolver, engine, now, cur, isActive, selectedGroup, activationTimestamp,
                    processedMessages, lastMessageTimestamp, lastProcessedMessage,
                    deliveries, handlers, timers, outbound, inserted, fx, inForce >>

\* a second passes while an invocation is suspended in an await (between
\* invocations the ages of the messages stand for the passing of time)
Tick ==
    /\ handlers # {}
    /\ events < MaxEvents
    /\ events' = events + 1
    /\ now' = now + 1
    /\ UNCHANGED << resolver, engine, groups, cur, isActive, selectedGroup, activationTimestamp,
                    processedMessages, lastMessageTimestamp, lastProcessedMessage,
                    deliveries, handlers, timers, outbound, inserted, fx, inForce >>

Next ==
    \/ Deliver
    \/ ListFetched
    \/ SelectFetched
    \/ Planned
    \/ SendDone
    \/ CorrectionFired
    \/ HotReload
    \/ GroupsChange
    \/ Tick

Spec == Init /\ [][Next]_vars

\* the event loop runs every timer that is due
FairSpec == Spec /\ WF_vars(CorrectionFired)

(***************************************************************************)
(* A long run in one instance: more messages than processedMessages keeps. *)
(* An owner's '.status' or a group member's plain text comes first, plain  *)
(* texts of the group member follow while the session is inactive, and the *)
(* first message is delivered once more after DedupCapacity messages.      *)
(***************************************************************************)
FloodExtra == 2         \* messages of a long run beyond DedupCapacity

StatusShape ==
    [of |-> 0, src |-> OwnerChat, text |-> CmdStatus, age |-> 0, fromMe |-> FALSE]
FillerShape ==
    [of |-> 0, src |-> Member1, text |-> PlainText, age |-> 0, fromMe |-> FALSE]
ReplayShape ==
    [of |-> 1, src |-> [remoteJid |-> Null, participant |-> Null], text |-> <<>>,
     age |-> 0, fromMe |-> FALSE]

\* the first message has been delivered a second time
Replayed(msgs) == \E d \in 2..Len(msgs) : msgs[d] = msgs[1]

FloodDeliver ==
    \E n \in 1..MaxBatchLen :
        /\ Len(deliveries) + n <= DedupCapacity + FloodExtra
        /\ \E shapes \in [1..n -> {StatusShape, FillerShape, ReplayShape}] :
            /\ \A k \in 1..n :
                  /\ shapes[k] = StatusShape => Len(deliveries) + k = 1 /\ n = 1
                  /\ shapes[k] = ReplayShape =>
                        /\ Len(deliveries) + k > DedupCapacity
                        /\ ~Replayed(deliveries)
                        /\ \A j \in 1..(k - 1) : shapes[j] # ReplayShape
            /\ LET msgs == Build(shapes, deliveries, now)
                   batch == [k \in 1..n |-> Len(deliveries) + k]
                   h == NewHandler(cur, SortDesc(batch, msgs))
                   S == [Shared EXCEPT !.fx = @ \o [k \in 1..n |-> NewFx(cur)]]
                   r == RunLoop(S, h, msgs, now)
               IN  /\ deliveries' = msgs
                   /\ handlers' = handlers \cup r.hs
                   /\ Publish(r.st)
        /\ UNCHANGED << resolver, engine, now, groups, cur, timers, outbound, events >>

FloodNext ==
    \/ FloodDeliver
    \/ SendDone

FloodSpec == Init /\ [][FloodNext]_vars

(***************************************************************************)
(* A longer session in one instance: the owner binds, unbinds and binds    *)
(* again while members of both groups send texts with and without tokens,  *)
(* one message in a batch, each delivered when no invocation is suspended. *)
(***************************************************************************)
MaxSessionLen == 5      \* messages of a longer session

SessionShapes ==
    { [of |-> 0, src |-> src, text |-> text, age |-> 0, fromMe |-> FALSE] :
      src \in {OwnerChat}, text \in {<<"0">>, <<"1">>, <<"2">>, CmdDeactivate} }
    \cup
    { [of |-> 0, src |-> src, text |-> text, age |-> 0, fromMe |-> FALSE] :
      src \in {Member1}, text \in {TokenText, AlternatingText, UnpairedText} }
    \cup
    { [of |-> 0, src |-> src, text |-> text, age |-> 0, fromMe |-> FALSE] :
      src \in {Member2}, text \in {TokenText} }

SessionDeliver ==
    /\ Len(deliveries) < MaxSessionLen
    /\ handlers = {}
    /\ \E s \in SessionShapes :
          LET msgs == Build(<<s>>, deliveries, now)
              h == NewHandler(cur, <<Len(deliveries) + 1>>)
              S == [Shared EXCEPT !.fx = Append(@, NewFx(cur))]
              r == RunLoop(S, h, msgs, now)
          IN  /\ deliveries' = msgs
              /\ handlers' = handlers \cup r.hs
              /\ Publish(r.st)
    /\ UNCHANGED << resolver, engine, now, groups, cur, timers, outbound, events >>

SessionNext ==
    \/ SessionDeliver
    \/ SelectFetched
    \/ Planned
    \/ SendDone
    \/ CorrectionFired

SessionSpec == Init /\ [][SessionNext]_vars

(***************************************************************************)
(* The Mistake Engine on one text: the calls the handler makes between     *)
(* processMessage and the correction, for texts with tokens of one, two    *)
(* and three characters, one to three tokens, one or two asterisk spans,   *)
(* and for texts with unmatched, adjacent and shared asterisks.            *)
(***************************************************************************)
EngineTexts ==
    { <<"*", "a", "b", "c", "*">>,
      <<"*", "a", "b", "*">>,
      <<"*", "a", "b", "c", " ", "a", "b", "*">>,
      <<"*", "a", "/", "b", "-", "c", "*">>,
      <<"*", "a", "b", "c", "*", "h", "*", "x", "t", "u", "*">>,
      PlainText,
      AlternatingText,
      <<"*", "a", "*", "b", "*">>,
      <<"*", "*", "a", "*", "b", "*">>,
      <<"*", "h">>,
      <<"*", "*">>,
      UnpairedText }

EngineInit ==
    /\ Constructed
    /\ engine \in { [NoEngine EXCEPT !.stage = "text", !.text = t] : t \in EngineTexts }
    /\ resolver = NoResolver

\* processMessage: result.learnedCharacters.map(char => char.input), or null
Extracted ==
    /\ engine.stage = "text"
    /\ LET characterNames == extractPotentialCharacters(engine.text)
       IN  engine' = [engine EXCEPT
                        !.stage = IF characterNames = <<>> THEN "null" ELSE "names",
                        !.characterNames = characterNames]
    /\ UNCHANGED << now, groups, cur, isActive, selectedGroup, activationTimestamp,
                    processedMessages, lastMessageTimestamp, lastProcessedMessage,
                    deliveries, handlers, timers, outbound, events, inserted, fx,
                    inForce, resolver >>

\* generateMistakeResponse(characterNames)
Mistaken ==
    /\ engine.stage = "names"
    /\ \E mistakeResult \in generateMistakeResponse(engine.characterNames) :
          engine' = [engine EXCEPT !.stage = "mistake", !.mistake = mistakeResult]
    /\ UNCHANGED << now, groups, cur, isActive, selectedGroup, activationTimestamp,
                    processedMessages, lastMessageTimestamp, lastProcessedMessage,
                    deliveries, handlers, timers, outbound, events, inserted, fx,
                    inForce, resolver >>

\* formatResponse(result): responseData is one of formatResponse(
\* engine.characterNames), kept with the mistakeResult it was made from
Formatted ==
    /\ engine.stage = "names"
    /\ \/ engine' = [engine EXCEPT !.stage = "plan",
                                   !.responseData = PlainPlan(engine.characterNames)]
       \/ \E mistakeResult \in generateMistakeResponse(engine.characterNames) :
             engine' = [engine EXCEPT !.stage = "plan",
                                      !.mistake = mistakeResult,
                                      !.responseData = MistakenPlan(mistakeResult)]
    /\ UNCHANGED << now, groups, cur, isActive, selectedGroup, activationTimestamp,
                    processedMessages, lastMessageTimestamp, lastProcessedMessage,
                    deliveries, handlers, timers, outbound, events, inserted, fx,
                    inForce, resolver >>

\* const delay = this.animeBot.getAdaptiveDelay(responseData.characterCount,
\* responseData.isMistake, responseData.mistakeType)
Delayed ==
    /\ engine.stage = "plan"
    /\ \E randomVariation \in RandomVariations :
          engine' = [engine EXCEPT
                        !.stage = "delayed",
                        !.randomVariation = randomVariation,
                        !.delay = getAdaptiveDelay(engine.responseData.characterCount,
                                                   engine.responseData.isMistake,
                                                   engine.responseData.mistakeType,
                                                   randomVariation)]
    /\ UNCHANGED << now, groups, cur, isActive, selectedGroup, activationTimestamp,
                    processedMessages, lastMessageTimestamp, lastProcessedMessage,
                    deliveries, handlers, timers, outbound, events, inserted, fx,
                    inForce, resolver >>

\* the correction timer's callback: generateCorrectionMessage(
\* responseData.originalCharacters)
Corrected ==
    /\ engine.stage = "delayed"
    /\ engine.responseData.isMistake
    /\ engine' = [engine EXCEPT
                     !.stage = "corrected",
                     !.correctionText =
                         generateCorrectionMessage(engine.responseData.originalCharacters)]
    /\ UNCHANGED << now, groups, cur, isActive, selectedGroup, activationTimestamp,
                    processedMessages, lastMessageTimestamp, lastProcessedMessage,
                    deliveries, handlers, timers, outbound, events, inserted, fx,
                    inForce, resolver >>

EngineNext ==
    \/ Extracted
    \/ Mistaken
    \/ Formatted
    \/ Delayed
    \/ Corrected

EngineSpec == EngineInit /\ [][EngineNext]_vars

(***************************************************************************)
(* The partial response on long token lists: generateMistakeResponse in    *)
(* its 'partial_response' case for 1 to MaxTokens tokens, two tokens       *)
(* alternating, with the sort leaving the copy as it was or reversed.      *)
(***************************************************************************)
MaxTokens == 100        \* longest token list of a partial response

PartialInit ==
    LET LongNames(n) ==
            [k \in 1..n |-> IF k % 2 = 1 THEN <<"a", "b", "c">> ELSE <<"a", "b">>]
    IN  /\ Constructed
        /\ engine \in { [NoEngine EXCEPT !.stage = "names",
                                         !.characterNames = LongNames(n)] :
                        n \in 1..MaxTokens }
        /\ resolver = NoResolver

\* generateMistakeResponse(characterNames) when isTypo is false and mistakeType
\* is 'partial_response', the sort leaving the copy as it was or reversed
PartialResponded ==
    /\ engine.stage = "names"
    /\ LET n == Len(engine.characterNames)
           SortOrders == { [k \in 1..n |-> k], [k \in 1..n |-> n + 1 - k] }
       IN  \E p \in SortOrders :
              LET characters == partialResponse(engine.characterNames, p)
              IN  engine' =
                     [engine EXCEPT
                        !.stage = "mistake",
                        !.mistake =
                            [characters |-> characters, mistakeType |-> "other",
                             isMistake |-> TRUE,
                             given |-> ArgumentAfter(engine.characterNames, characters),
                             branch |-> "partial_response"]]
    /\ UNCHANGED << now, groups, cur, isActive, selectedGroup, activationTimestamp,
                    processedMessages, lastMessageTimestamp, lastProcessedMessage,
                    deliveries, handlers, timers, outbound, events, inserted, fx,
                    inForce, resolver >>

PartialNext == PartialResponded

PartialSpec == PartialInit /\ [][PartialNext]_vars

(***************************************************************************)
(* normalizeArabicText.  A string is the sequence of its UTF-16 code       *)
(* units; "U00D8" is the code unit U+00D8.  The copy of the class the      *)
(* handler works with holds its Arabic literals as the Latin-1 reading of  *)
(* their UTF-8 bytes, two code units a letter, so each of its character    *)
(* classes is a set of those code units and each replacement a string of   *)
(* two.  The other copy of the class holds the letters themselves.         *)
(***************************************************************************)
\* everything the handler's variables are, for the steps that leave them alone
pipeline ==
    << now, groups, cur, isActive, selectedGroup, activationTimestamp,
       processedMessages, lastMessageTimestamp, lastProcessedMessage,
       deliveries, handlers, timers, outbound, events, inserted, fx,
       inForce, engine >>

\* text.replace(/[...]/g, to): every code unit of the class becomes `to`
RECURSIVE ReplaceClass(_, _, _)
ReplaceClass(text, class, to) ==
    IF text = <<>> THEN <<>>
    ELSE (IF Head(text) \in class THEN to ELSE <<Head(text)>>)
         \o ReplaceClass(Tail(text), class, to)

\* String.prototype.toLowerCase on the code units of the model
LowerCase(c) ==
    CASE c = "U00D8" -> "U00F8"
      [] c = "U00D9" -> "U00F9"
      [] c = "U00DA" -> "U00FA"
      [] c = "U0160" -> "U0161"
      [] c = "B" -> "b"
      [] OTHER -> c

toLowerCase(text) == [k \in 1..Len(text) |-> LowerCase(text[k])]

\* the six replace calls in their order, then toLowerCase
normalizeArabicText(text) ==
    LET r1 == ReplaceClass(text, {"U00D8", "U00A3", "U00A5", "U00A2", "U00A7"},
                           <<"U00D8", "U00A7">>)
        r2 == ReplaceClass(r1, {"U00D9", "U2030", "U0160"}, <<"U00D9", "U0160">>)
        r3 == ReplaceClass(r2, {"U00D8", "U00A9", "U00D9", "U2021"},
                           <<"U00D9", "U2021">>)
        r4 == ReplaceClass(r3, {"U00D8", "U00A4", "U00D9", "U02C6"},
                           <<"U00D9", "U02C6">>)
        r5 == ReplaceClass(r4, {"U00D8", "U00A6", "U00A1"}, <<"U00D8", "U00A1">>)
        r6 == ReplaceClass(r5, {"U00D9", "U0192", "U00DA", "U00A9"},
                           <<"U00D9", "U0192">>)
    IN  toLowerCase(r6)

\* the other copy of normalizeArabicText
normalizeArabicTextOther(text) ==
    LET r1 == ReplaceClass(text, {"ar_alef_hamza_above", "ar_alef_hamza_below",
                                  "ar_alef_madda", "ar_alef"}, <<"ar_alef">>)
        r2 == ReplaceClass(r1, {"ar_alef_maksura", "ar_yeh"}, <<"ar_yeh">>)
        r3 == ReplaceClass(r2, {"ar_teh_marbuta", "ar_heh"}, <<"ar_heh">>)
        r4 == ReplaceClass(r3, {"ar_waw_hamza", "ar_waw"}, <<"ar_waw">>)
        r5 == ReplaceClass(r4, {"ar_yeh_hamza", "ar_hamza"}, <<"ar_hamza">>)
        r6 == ReplaceClass(r5, {"ar_kaf", "ar_keheh"}, <<"ar_kaf">>)
    IN  toLowerCase(r6)

\* the code units the character classes of normalizeArabicText hold
RewrittenUnits ==
    {"U00D8", "U00A3", "U00A5", "U00A2", "U00A7", "U00D9", "U2030", "U0160",
     "U00A9", "U2021", "U00A4", "U02C6", "U00A6", "U00A1", "U0192", "U00DA"}

\* the letters the character classes of the other copy hold
RewrittenLetters ==
    {"ar_alef_hamza_above", "ar_alef_hamza_below", "ar_alef_madda", "ar_alef",
     "ar_alef_maksura", "ar_yeh", "ar_teh_marbuta", "ar_heh", "ar_waw_hamza",
     "ar_waw", "ar_yeh_hamza", "ar_hamza", "ar_kaf", "ar_keheh"}

MaxNameLen == 2

\* the strings normalizeArabicText is given: up to MaxNameLen of the code
\* units it rewrites and of ASCII letters of both cases
NameUnits == RewrittenUnits \cup RewrittenLetters \cup {"a", "B"}

Names == UNION { [1..n -> NameUnits] : n \in 0..MaxNameLen }

NormalizeInit ==
    /\ Constructed
    /\ engine = NoEngine
    /\ resolver \in { [stage |-> "name", characterName |-> x,
                       once |-> <<>>, twice |-> <<>>,
                       onceOther |-> <<>>, twiceOther |-> <<>>] : x \in Names }

\* normalizeArabicText(characterName), by either copy of the class
Normalized ==
    /\ resolver.stage = "name"
    /\ resolver' = [resolver EXCEPT
                       !.stage = "once",
                       !.once = normalizeArabicText(resolver.characterName),
                       !.onceOther = normalizeArabicTextOther(resolver.characterName)]
    /\ UNCHANGED pipeline

\* normalizeArabicText of the result
NormalizedAgain ==
    /\ resolver.stage = "once"
    /\ resolver' = [resolver EXCEPT
                       !.stage = "twice",
                       !.twice = normalizeArabicText(resolver.once),
                       !.twiceOther = normalizeArabicTextOther(resolver.onceOther)]
    /\ UNCHANGED pipeline

NormalizeNext ==
    \/ Normalized
    \/ NormalizedAgain

NormalizeSpec == NormalizeInit /\ [][NormalizeNext]_vars

(***************************************************************************)
(* searchCharacterInDatabases and searchSingleAPI.  Times are Date.now()   *)
(* in milliseconds.  A call of searchSingleAPI runs without interruption   *)
(* to its next await (a sleep or a request); the awaits end in the order   *)
(* of the times they are due.  requests is the set of all requests issued  *)
(* so far, returns the record of every search that returned.               *)
(***************************************************************************)
animeAPIs == <<"graphql.anilist.co", "api.jikan.moe", "kitsu.io">>

minAPIDelay == 900
rateLimitRetries == 3
rateLimitBackoff == 1800

MaxSearches == 2
\* how many searches of a run miss both Maps
MaxFanOuts == 1
\* how many requests the services answer with a rate-limit error in a run
MaxRateLimited == 3
\* Date.now() when the first search starts
LookupStart == 5000
\* the time a response takes that is no timeout
ResponseTime == 100

APIs == 1..Len(animeAPIs)

\* how a request ends, and after how long: a response with or without a
\* match, a rate-limit error, another error
Answers ==
    { [outcome |-> o, after |-> ResponseTime] :
        o \in {"match", "nomatch", "ratelimit", "error"} }

\* the rate-limit errors among the answers to the requests given
Limiting(answers, apis) == Cardinality({ api \in apis : answers[api].outcome = "ratelimit" })

\* the services can give these answers to the requests given
Affordable(R, answers, apis) == R.limited + Limiting(answers, apis) <= MaxRateLimited

\* lastAPICall when the first search starts: no request has matched yet, or
\* one did ResponseTime ago
LastCalls == {0, LookupStart - ResponseTime}

SearchNames == { <<"B", "a">>, <<"x">> }

LearnedEntry == [name |-> "learned", confidence |-> 7, source |-> "stored"]

\* the Maps loadCharacterMappings can leave: empty, or with the key 'ba'
StaticTables == { [k \in keys |-> "static"] : keys \in { {}, { <<"b", "a">> } } }
LearnedTables == { [k \in keys |-> LearnedEntry] : keys \in { {}, { <<"b", "a">> } } }

NoCall == [pc |-> "idle", attempt |-> 0, due |-> 0, pending |-> "none", result |-> Null]

\* Math.pow(2, n)
RECURSIVE Pow2(_)
Pow2(n) == IF n = 0 THEN 1 ELSE 2 * Pow2(n - 1)

\* this.rateLimitBackoff * Math.pow(2, attempt - 1)
backoffDelay(attempt) == rateLimitBackoff * Pow2(attempt - 1)

\* a variant of IsRateLimit that takes every error for a rate limit
IsAnyError(outcome) == outcome \in {"ratelimit", "error"}

\* error.response?.status === 429 || error.message.includes('rate limit') ||
\* error.message.includes('too many requests')
IsRateLimit(outcome) == outcome = "ratelimit"

\* what searchSingleAPI returns on a match; confidence in tenths
ApiResult(api) ==
    IF api = 1
    THEN [name |-> "found", confidence |-> 9, source |-> "AniList"]
    ELSE [name |-> "found", confidence |-> 8, source |-> animeAPIs[api]]

\* a variant of LocalResult that looks into learnedCharacters first
LocalResultLearnedFirst(R, normalizedName) ==
    IF normalizedName \in DOMAIN R.learnedCharacters
    THEN [R.learnedCharacters[normalizedName] EXCEPT !.source = "Learned Characters"]
    ELSE IF normalizedName \in DOMAIN R.arabicCharacterNames
    THEN [name |-> R.arabicCharacterNames[normalizedName], confidence |-> 10,
          source |-> "Local Mapping"]
    ELSE Null

\* the two Map lookups of searchCharacterInDatabases; Null when both miss
LocalResult(R, normalizedName) ==
    IF normalizedName \in DOMAIN R.arabicCharacterNames
    THEN [name |-> R.arabicCharacterNames[normalizedName], confidence |-> 10,
          source |-> "Local Mapping"]
    ELSE IF normalizedName \in DOMAIN R.learnedCharacters
    THEN [R.learnedCharacters[normalizedName] EXCEPT !.source = "Learned Characters"]
    ELSE Null

\* axios.post / axios.get is called at time `at` for the given attempt
Request(R, api, attempt, at, answer) ==
    [search |-> R.searches, api |-> api, attempt |-> attempt, at |-> at,
     outcome |-> answer.outcome, answered |-> at + answer.after]

\* the call is left awaiting the request it issued at time `at`
Requesting(attempt, at, answer) ==
    [pc |-> "request", attempt |-> attempt, due |-> at + answer.after,
     pending |-> answer.outcome, result |-> Null]

\* if (timeSinceLastCall < this.minAPIDelay)
MustWait(timeSinceLastCall) == timeSinceLastCall < minAPIDelay

\* searchSingleAPI up to its first await, called at time R.clock
Started(R, answer) ==
    LET timeSinceLastCall == R.clock - R.lastAPICall
    IN  IF MustWait(timeSinceLastCall)
        THEN [pc |-> "sleep", attempt |-> 0,
              due |-> R.clock + (minAPIDelay - timeSinceLastCall),
              pending |-> "none", result |-> Null]
        ELSE Requesting(1, R.clock, answer)

\* the requests the three calls issued when they were started
FirstRequests(R, answers) ==
    { Request(R, api, 1, R.clock, answers[api]) :
        api \in { a \in APIs : Started(R, answers[a]).pc = "request" } }

\* validResults.reduce((best, current) =>
\*     current.confidence > best.confidence ? current : best)
RECURSIVE Best(_, _, _)
Best(calls, api, best) ==
    IF api > Len(animeAPIs) THEN best
    ELSE LET current == calls[api].result
         IN  Best(calls, api + 1,
                  IF current = Null THEN best
                  ELSE IF best = Null THEN current
                  ELSE IF current.confidence > best.confidence THEN current
                  ELSE best)

\* the await of this call is the next to end among the suspended calls
NextDue(R, api) ==
    LET Waiting == { a \in APIs : R.calls[a].pc \in {"sleep", "request", "backoff"} }
    IN  /\ api \in Waiting
        /\ \A other \in Waiting : R.calls[api].due <= R.calls[other].due

LookupInit ==
    /\ Constructed
    /\ engine = NoEngine
    /\ resolver \in
          { [stage |-> "ready", arabicCharacterNames |-> a, learnedCharacters |-> l,
             characterName |-> <<>>, clock |-> LookupStart, lastAPICall |-> last,
             calls |-> [api \in APIs |-> NoCall], requests |-> {},
             searches |-> 0, fanOuts |-> 0, returns |-> <<>>, limited |-> 0,
             written |-> [saved |-> FALSE, arabicCharacterNames |-> {},
                          learnedCharacters |-> {}]] :
            a \in StaticTables, l \in LearnedTables, last \in LastCalls }

\* searchCharacterInDatabases(characterName) up to its return or its await
Search ==
    /\ resolver.stage = "ready"
    /\ \E characterName \in SearchNames :
          LET R == [resolver EXCEPT !.searches = @ + 1,
                                    !.characterName = characterName]
              normalizedName == normalizeArabicText(characterName)
              local == LocalResult(R, normalizedName)
          IN  IF local # Null
              THEN resolver' =
                       [R EXCEPT !.stage = "returned",
                                 !.returns = Append(@, [characterName |-> characterName,
                                                        result |-> local])]
              ELSE \E answers \in [APIs -> Answers] :
                       LET asked == { api \in APIs :
                                        Started(R, answers[api]).pc = "request" }
                       IN  /\ R.fanOuts < MaxFanOuts
                           /\ Affordable(R, answers, asked)
                           /\ asked = {} => answers = [api \in APIs |-> CHOOSE a \in Answers : TRUE]
                           /\ resolver' =
                                  [R EXCEPT
                                      !.stage = "searching",
                                      !.fanOuts = @ + 1,
                                      !.calls = [api \in APIs |-> Started(R, answers[api])],
                                      !.requests = @ \cup FirstRequests(R, answers),
                                      !.limited = @ + Limiting(answers, asked)]
    /\ UNCHANGED pipeline

\* await this.sleep(delay) ends: the first attempt
Slept ==
    /\ resolver.stage = "searching"
    /\ \E api \in APIs : \E answer \in Answers :
          LET R == resolver
              at == R.calls[api].due
              answers == [a \in {api} |-> answer]
          IN  /\ NextDue(R, api)
              /\ R.calls[api].pc = "sleep"
              /\ Affordable(R, answers, {api})
              /\ resolver' =
                     [R EXCEPT !.clock = at,
                               !.calls[api] = Requesting(1, at, answer),
                               !.requests = @ \cup {Request(R, api, 1, at, answer)},
                               !.limited = @ + Limiting(answers, {api})]
    /\ UNCHANGED pipeline

\* await axios.post / axios.get ends
Responded ==
    /\ resolver.stage = "searching"
    /\ \E api \in APIs :
          LET R == resolver
              call == R.calls[api]
              at == call.due
          IN  /\ NextDue(R, api)
              /\ call.pc = "request"
              /\ resolver' =
                     IF call.pending = "match"
                     THEN [R EXCEPT !.clock = at, !.lastAPICall = at,
                                    !.calls[api] = [call EXCEPT !.pc = "done",
                                                                !.result = ApiResult(api)]]
                     ELSE IF call.pending = "nomatch"
                     THEN [R EXCEPT !.clock = at,
                                    !.calls[api] = [call EXCEPT !.pc = "done"]]
                     ELSE IF IsRateLimit(call.pending)
                     THEN [R EXCEPT !.clock = at,
                                    !.calls[api] =
                                        [call EXCEPT !.pc = "backoff",
                                                     !.due = at + backoffDelay(call.attempt)]]
                     ELSE [R EXCEPT !.clock = at,
                                    !.calls[api] = [call EXCEPT !.pc = "done"]]
    /\ UNCHANGED pipeline

\* await this.sleep(backoffDelay) ends: continue with attempt + 1, or leave
\* the loop and return null
BackedOff ==
    /\ resolver.stage = "searching"
    /\ \E api \in APIs : \E answer \in Answers :
          LET R == resolver
              call == R.calls[api]
              at == call.due
              attempt == call.attempt + 1
              answers == [a \in {api} |-> answer]
          IN  /\ NextDue(R, api)
              /\ call.pc = "backoff"
              /\ IF attempt <= rateLimitRetries
                 THEN Affordable(R, answers, {api})
                 ELSE answer = CHOOSE a \in Answers : TRUE
              /\ resolver' =
                     IF attempt <= rateLimitRetries
                     THEN [R EXCEPT !.clock = at,
                                    !.calls[api] = Requesting(attempt, at, answer),
                                    !.requests =
                                        @ \cup {Request(R, api, attempt, at, answer)},
                                    !.limited = @ + Limiting(answers, {api})]
                     ELSE [R EXCEPT !.clock = at,
                                    !.calls[api] = [call EXCEPT !.pc = "done"]]
    /\ UNCHANGED pipeline

\* await Promise.all(apiPromises) ends
Returned ==
    /\ resolver.stage = "searching"
    /\ \A api \in APIs : resolver.calls[api].pc = "done"
    /\ resolver' =
           [resolver EXCEPT
               !.stage = "returned",
               !.returns = Append(@, [characterName |-> resolver.characterName,
                                      result |-> Best(resolver.calls, 1, Null)])]
    /\ UNCHANGED pipeline

\* the caller is ready for another search
SearchAgain ==
    /\ resolver.stage = "returned"
    /\ resolver.searches < MaxSearches
    /\ resolver' = [resolver EXCEPT !.stage = "ready",
                                   !.calls = [api \in APIs |-> NoCall]]
    /\ UNCHANGED pipeline

\* a variant of saveCharacterMappings that writes no learned entry
saveStaticOnly(R) ==
    [saved |-> TRUE,
     arabicCharacterNames |->
         { <<k, R.arabicCharacterNames[k]>> : k \in DOMAIN R.arabicCharacterNames },
     learnedCharacters |-> {}]

\* the two tables of the document saveCharacterMappings writes, each as the
\* set of its entries: Object.fromEntries(Map) has a property for every key
\* of the Map, with the Map's value
saveCharacterMappings(R) ==
    [saved |-> TRUE,
     arabicCharacterNames |->
         { <<k, R.arabicCharacterNames[k]>> : k \in DOMAIN R.arabicCharacterNames },
     learnedCharacters |->
         { <<k, R.learnedCharacters[k]>> : k \in DOMAIN R.learnedCharacters }]

\* extractPotentialCharacters found a token in a text and called
\* saveCharacterMappings(), which wrote the file (a failing write is swallowed
\* and leaves the file as it was)
Saved ==
    /\ extractPotentialCharacters(TokenText) # <<>>
    /\ resolver.written # saveCharacterMappings(resolver)
    /\ resolver' = [resolver EXCEPT !.written = saveCharacterMappings(resolver)]
    /\ UNCHANGED pipeline

LookupNext ==
    \/ Search
    \/ Slept
    \/ Responded
    \/ BackedOff
    \/ Returned
    \/ SearchAgain
    \/ Saved

LookupSpec == LookupInit /\ [][LookupNext]_vars

(***************************************************************************)
(* loadCharacterMappings, as the constructor calls it, and a first search  *)
(* on the instance it leaves.                                              *)
(***************************************************************************)
\* the mappings file: absent; present and unreadable; readable and no JSON;
\* the JSON text null; or an object with or without each of the two
\* properties, and with or without an exception thrown while the second Map
\* is built, after the first was assigned (late)
MappingFiles ==
    { [kind |-> k, static |-> FALSE, learned |-> FALSE, late |-> FALSE] :
        k \in {"absent", "unreadable", "malformed", "null"} }
    \cup
    { f \in [kind : {"object"}, static : BOOLEAN, learned : BOOLEAN, late : BOOLEAN] :
        f.late => f.learned }

\* new Map()
NewMap == [k \in {} |-> Null]

\* a variant of LoadCaught without the catch: the Maps stay as they are and
\* the promise of loadCharacterMappings is rejected
LoadUncaught(R) == [R EXCEPT !.rejected = TRUE]

\* catch (error) { this.arabicCharacterNames = new Map();
\*                 this.learnedCharacters = new Map(); }
LoadCaught(R) == [R EXCEPT !.arabicCharacterNames = NewMap, !.learnedCharacters = NewMap]

\* the instance R after loadCharacterMappings found the file as given
loadCharacterMappings(R, file) ==
    LET R1 == IF file.static
              THEN [R EXCEPT !.arabicCharacterNames = [k \in {<<"b", "a">>} |-> "static"]]
              ELSE R
        R2 == IF file.learned
              THEN [R1 EXCEPT !.learnedCharacters = [k \in {<<"b", "a">>} |-> LearnedEntry]]
              ELSE R1
    IN  IF file.kind = "absent" THEN R
        ELSE IF file.kind \in {"unreadable", "malformed", "null"} THEN LoadCaught(R)
        ELSE IF file.late THEN LoadCaught(R1)
        ELSE R2

LoadInit ==
    /\ Constructed
    /\ engine = NoEngine
    /\ resolver \in
          { [stage |-> "constructed", file |-> f, rejected |-> FALSE,
             arabicCharacterNames |-> NewMap, learnedCharacters |-> NewMap,
             characterName |-> <<>>, clock |-> LookupStart, lastAPICall |-> 0,
             calls |-> [api \in APIs |-> NoCall], requests |-> {},
             searches |-> 0, fanOuts |-> 0, returns |-> <<>>, limited |-> 0] :
            f \in MappingFiles }

\* this.loadCharacterMappings(), the last statement of the constructor
Loaded ==
    /\ resolver.stage = "constructed"
    /\ resolver' = [loadCharacterMappings(resolver, resolver.file) EXCEPT !.stage = "ready"]
    /\ UNCHANGED pipeline

LoadNext ==
    \/ Loaded
    \/ Search

LoadSpec == LoadInit /\ [][LoadNext]_vars

(***************************************************************************)
(* What the properties speak of.                                           *)
(***************************************************************************)
Delivered == 1..Len(deliveries)

\* the handler has reached the message
Examined(d) == fx[d].outcome # "pending"

\* the sender is one of ownerNumbers
SentByOwner(d) == SenderNumber(deliveries[d]).user \in ownerNumbers

\* the sendMessage calls made for delivery d that succeeded
Sends(d) == { k \in 1..Len(outbound) : outbound[k].d = d }

Replies(d) == { k \in Sends(d) : outbound[k].kind = "reply" }

\* delivery d made the agent call the transport or change the session
Caused(d) == Sends(d) # {} \/ fx[d].changes > 0 \/ fx[d].failed

SameMessage(d1, d2) == MessageId(deliveries[d1]) = MessageId(deliveries[d2])

\* seconds between the message's timestamp and the moment it was examined
AgeWhenHandled(d) == fx[d].snap.at - deliveries[d].ts

\* message IDs the instance recorded between the two deliveries
InsertedBetween(d1, d2) ==
    IF fx[d1].outcome = "in" /\ fx[d2].outcome = "in"
    THEN (IF fx[d2].seq > fx[d1].seq THEN fx[d2].seq - fx[d1].seq
          ELSE fx[d1].seq - fx[d2].seq) - 1
    ELSE 0

\* the instance had already recorded this message when it examined delivery d
AlreadyRecorded(d) ==
    \E d0 \in Delivered :
        /\ d0 # d
        /\ SameMessage(d0, d)
        /\ fx[d0].inst = fx[d].inst
        /\ fx[d0].outcome = "in"
        /\ fx[d].outcome = "in" => fx[d0].seq < fx[d].seq

(***************************************************************************)
(* C1.  Two deliveries of the same message (same chat, key id, timestamp)  *)
(* together make the agent act once: not both of them cause a transport    *)
(* call or a session change.                                               *)
(***************************************************************************)
\* C1 as stated: of two deliveries of one message at most one causes a
\* sendMessage call or a session-state change, whatever is handled in between.
C1_ExactlyOnce ==
    \A d1, d2 \in Delivered :
        d1 < d2 /\ SameMessage(d1, d2) => ~(Caused(d1) /\ Caused(d2))

\* C1 as amended: of two deliveries of one message to the same plugin instance,
\* with fewer than 200 other message IDs recorded by it in between, at most one
\* causes a sendMessage call or a session-state change.
C1_ExactlyOncePerInstance ==
    \A d1, d2 \in Delivered :
        /\ d1 < d2
        /\ SameMessage(d1, d2)
        /\ fx[d1].inst = fx[d2].inst
        /\ InsertedBetween(d1, d2) < DedupCapacity
        => ~(Caused(d1) /\ Caused(d2))

\* a message that was answered is delivered again and skipped as a duplicate
C1_Witness ==
    \E d1, d2 \in Delivered :
        /\ d1 < d2
        /\ SameMessage(d1, d2)
        /\ fx[d1].inst = fx[d2].inst
        /\ Sends(d1) # {}
        /\ fx[d2].outcome = "dup"

(***************************************************************************)
(* C2.  A detection reply goes only to the bound group.                    *)
(***************************************************************************)
\* C2: every detection reply answers a message that, when it passed the gate,
\* found isActive = true and its chat equal to the non-null selectedGroup.
C2_RepliesOnlyToBoundGroup ==
    \A k \in 1..Len(outbound) :
        outbound[k].kind = "reply" =>
            LET found == fx[outbound[k].d].snap
            IN  /\ found.active
                /\ found.selected # Null
                /\ outbound[k].to = found.selected

(***************************************************************************)
(* C3.  Control commands of a non-owner are ignored.                       *)
(***************************************************************************)
\* C3: a '.a' or '.x' (or alias) from a sender outside ownerNumbers causes no
\* outbound message and no change of isActive, selectedGroup, activationTimestamp.
C3_NonOwnerCommandIgnored ==
    \A d \in Delivered :
        /\ IsActivateCmd(deliveries[d].text) \/ IsDeactivateCmd(deliveries[d].text)
        /\ ~SentByOwner(d)
        => /\ Sends(d) = {}
           /\ fx[d].changes = 0
           /\ ~fx[d].failed
           /\ Examined(d) => fx[d].done

\* a non-owner's '.x' passed the skips while the session was Active, and a
\* non-owner's '.a' alias passed them too
C3_Witness ==
    /\ \E d \in Delivered :
        /\ IsDeactivateCmd(deliveries[d].text)
        /\ ~SentByOwner(d)
        /\ fx[d].outcome = "in"
        /\ fx[d].snap.active
    /\ \E d \in Delivered :
        /\ IsActivateCmd(deliveries[d].text)
        /\ ~SentByOwner(d)
        /\ fx[d].outcome = "in"

(***************************************************************************)
(* C4.  An owner's '.x' leaves the session Unbound.                        *)
(***************************************************************************)
\* the first delivery of its message
FirstDelivery(d) == \A d0 \in Delivered : d0 < d => ~SameMessage(d0, d)

\* C4 as stated: when a fresh, non-duplicate, non-self '.x' of an owner has been
\* delivered and the handler has returned from its batch, the session it left
\* is Unbound.
C4_UnboundAfterBatch ==
    \A d \in Delivered :
        /\ IsDeactivateCmd(deliveries[d].text)
        /\ SentByOwner(d)
        /\ ~deliveries[d].fromMe
        /\ FirstDelivery(d)
        /\ Examined(d)
        /\ AgeWhenHandled(d) <= MaxAge
        /\ fx[d].end.reached
        => ~fx[d].end.active /\ fx[d].end.selected = Null

\* C4 as amended: the step in which the handler takes an owner's '.x' that is
\* non-self, fresh, not older than lastMessageTimestamp and not in the dedup set
\* leaves the handling instance Unbound (isActive = false, selectedGroup = null).
C4_UnboundAfterDeactivate ==
    [][ \A d \in 1..Len(fx') :
          /\ d > Len(fx) \/ fx[d].outcome = "pending"
          /\ fx'[d].outcome = "in"
          /\ IsDeactivateCmd(deliveries'[d].text)
          /\ SenderNumber(deliveries'[d]).user \in ownerNumbers
          => /\ ~isActive'[fx'[d].inst]
             /\ selectedGroup'[fx'[d].inst] = Null ]_vars

\* an owner's '.x' was taken while the session was Active and bound
C4_Witness ==
    \E d \in Delivered :
        /\ IsDeactivateCmd(deliveries[d].text)
        /\ SentByOwner(d)
        /\ fx[d].outcome = "in"
        /\ fx[d].snap.active
        /\ fx[d].snap.selected # Null
        /\ fx[d].changes > 0

(***************************************************************************)
(* C5.  The numeral selects from the list the owner was sent.              *)
(***************************************************************************)
\* C5: an owner's numeral n, handled while Unbound after a group list was sent
\* out, binds the session to the n-th group of that list (n within the list),
\* the transport calls not failing.
C5_BindsListedGroup ==
    \A d \in Delivered :
        LET n == ParseInt(Trim(deliveries[d].text))
            listing == fx[d].snap.listing
        IN  /\ fx[d].branch = "select"
            /\ fx[d].resumed
            /\ ~fx[d].failed
            /\ n >= 1 /\ n <= Len(listing)
            => fx[d].bound = listing[n]

(***************************************************************************)
(* C6.  Active implies bound.                                              *)
(***************************************************************************)
\* C6: in every state of the running agent, isActive = true implies that
\* selectedGroup is not null.
C6_ActiveImpliesBound == isActive[cur] => selectedGroup[cur] # Null

(***************************************************************************)
(* C7.  The activation low-water mark.                                     *)
(***************************************************************************)
\* C7: no detection reply answers a message whose timestamp is lower than the
\* activationTimestamp stamped by the activation in force when it was gated.
C7_LowWaterMark ==
    \A k \in 1..Len(outbound) :
        outbound[k].kind = "reply" =>
            deliveries[outbound[k].d].ts >= fx[outbound[k].d].snap.stamp

(***************************************************************************)
(* C8.  Stale messages are skipped entirely.                               *)
(***************************************************************************)
\* C8: a message more than 30 seconds old when the handler reaches it causes
\* no outbound message, no transport call, no change of isActive, selectedGroup
\* or activationTimestamp, no change of lastMessageTimestamp and no insertion
\* into processedMessages.
C8_StaleSkipped ==
    \A d \in Delivered :
        Examined(d) /\ AgeWhenHandled(d) > MaxAge
        => /\ Sends(d) = {}
           /\ ~fx[d].failed
           /\ fx[d].changes = 0
           /\ ~fx[d].touched
           /\ fx[d].seq = 0
           /\ fx[d].done

\* a stale '.x' of an owner was examined while the session was Active, and a
\* stale message with a token was examined in the bound group
C8_Witness ==
    /\ \E d \in Delivered :
        /\ Examined(d)
        /\ AgeWhenHandled(d) > MaxAge
        /\ ~deliveries[d].fromMe
        /\ SentByOwner(d)
        /\ IsDeactivateCmd(deliveries[d].text)
        /\ fx[d].snap.active
    /\ \E d \in Delivered :
        /\ Examined(d)
        /\ AgeWhenHandled(d) > MaxAge
        /\ ~deliveries[d].fromMe
        /\ deliveries[d].text = TokenText
        /\ fx[d].snap.active
        /\ fx[d].snap.selected = deliveries[d].remoteJid

(***************************************************************************)
(* C9.  A qualifying message gets exactly one reply.                       *)
(***************************************************************************)
\* '.a', '.x', '.status', their aliases, or an owner's numeral
IsCommand(d) ==
    \/ IsActivateCmd(deliveries[d].text)
    \/ IsDeactivateCmd(deliveries[d].text)
    \/ IsStatusCmd(deliveries[d].text)
    \/ SentByOwner(d) /\ IsDigits(Trim(deliveries[d].text))

\* not self-authored, fresh, not a duplicate delivery, not a command, from the
\* bound group while Active, not older than the activation, with a token
Qualifies(d) ==
    /\ Examined(d)
    /\ ~deliveries[d].fromMe
    /\ AgeWhenHandled(d) <= MaxAge
    /\ ~AlreadyRecorded(d)
    /\ ~IsCommand(d)
    /\ fx[d].snap.active
    /\ fx[d].snap.selected # Null
    /\ fx[d].snap.selected = deliveries[d].remoteJid
    /\ deliveries[d].ts >= fx[d].snap.activation
    /\ extractPotentialCharacters(deliveries[d].text) # <<>>

\* never two replies; one reply once the handler is through with the message
\* and no transport call failed for it
OneReply(d) ==
    /\ Cardinality(Replies(d)) <= 1
    /\ fx[d].done /\ ~fx[d].failed => Cardinality(Replies(d)) = 1

\* C9 as stated: every qualifying message results in exactly one reply to its
\* group, whatever other messages precede it or share its batch.
C9_QualifyingMessageReplied ==
    \A d \in Delivered :
        Qualifies(d)
        => /\ OneReply(d)
           /\ \A k \in Replies(d) : outbound[k].to = deliveries[d].remoteJid

\* C9 as amended: every qualifying message whose timestamp is not lower than
\* lastMessageTimestamp and whose text differs from lastProcessedMessage when
\* the handler reaches it results in exactly one reply to its group.
C9_QualifyingNewestMessageReplied ==
    \A d \in Delivered :
        /\ Qualifies(d)
        /\ deliveries[d].ts >= fx[d].snap.last
        /\ deliveries[d].text # fx[d].snap.lastText
        => /\ OneReply(d)
           /\ \A k \in Replies(d) : outbound[k].to = deliveries[d].remoteJid

\* a qualifying message was answered
C9_Witness ==
    \E d \in Delivered :
        /\ Qualifies(d)
        /\ deliveries[d].ts >= fx[d].snap.last
        /\ deliveries[d].text # fx[d].snap.lastText
        /\ fx[d].done
        /\ ~fx[d].failed
        /\ Cardinality(Replies(d)) = 1

(***************************************************************************)
(* C10.  Only an owner's '.x' and an owner's numeral change the session.   *)
(***************************************************************************)
\* the step made delivery d change the session
ChangedBy(d) ==
    IF d <= Len(fx) THEN fx'[d].changes > fx[d].changes ELSE fx'[d].changes > 0

\* C10: a step of message handling that changes isActive, selectedGroup or
\* activationTimestamp does so while handling an owner's '.x' or an owner's
\* numeral; handling anything else leaves the three fields unchanged.
C10_OnlyOwnerCommandsMutate ==
    [][ /\ cur' = cur /\ session' # session => \E d \in 1..Len(fx') : ChangedBy(d)
        /\ \A d \in 1..Len(fx') :
              ChangedBy(d) =>
                  /\ SenderNumber(deliveries'[d]).user \in ownerNumbers
                  /\ \/ IsDeactivateCmd(deliveries'[d].text)
                     \/ IsDigits(Trim(deliveries'[d].text)) ]_vars

\* an owner's '.x' and an owner's numeral have each changed the session, and a
\* detection reply, a status reply and a group list have been sent
C10_Witness ==
    /\ \E d \in Delivered : fx[d].changes > 0 /\ IsDeactivateCmd(deliveries[d].text)
    /\ \E d \in Delivered : fx[d].changes > 0 /\ IsDigits(Trim(deliveries[d].text))
    /\ \E k \in 1..Len(outbound) : outbound[k].kind \in {"reply", "status", "listing"}

(***************************************************************************)
(* C11.  '.status' is answered once, truthfully, and changes nothing.      *)
(***************************************************************************)
\* C11: a '.status' (or alias) that the handler takes, from an owner or not, in
\* any chat and any session state, is answered by one status message to its
\* chat (the send not failing), whose text says Active exactly when isActive
\* was true, and it changes none of isActive, selectedGroup, activationTimestamp.
C11_StatusReadOnly ==
    \A d \in Delivered :
        IsStatusCmd(deliveries[d].text) /\ fx[d].outcome = "in"
        => /\ Cardinality(Sends(d)) <= 1
           /\ fx[d].done /\ ~fx[d].failed => Cardinality(Sends(d)) = 1
           /\ \A k \in Sends(d) :
                 /\ outbound[k].kind = "status"
                 /\ outbound[k].to = deliveries[d].remoteJid
                 /\ (outbound[k].body[1] = "Active") <=> fx[d].snap.active
           /\ fx[d].changes = 0

\* an owner's '.status' was answered Inactive in the owner's chat, and a group
\* member's alias was answered Active in the group while the session was Active
C11_Witness ==
    /\ \E d \in Delivered :
        /\ deliveries[d].text = CmdStatus
        /\ SentByOwner(d)
        /\ ~fx[d].snap.active
        /\ \E k \in Sends(d) : outbound[k].body = <<"Inactive">>
    /\ \E d \in Delivered :
        /\ deliveries[d].text = CmdStatusAlias
        /\ ~SentByOwner(d)
        /\ fx[d].snap.active
        /\ \E k \in Sends(d) : outbound[k].body[1] = "Active"

(***************************************************************************)
(* C12.  A numeral is a group selection only from an owner while inactive. *)
(***************************************************************************)
\* C12: an all-digits message from a sender outside ownerNumbers, or from any
\* sender while isActive is true when the handler reaches it, changes none of
\* isActive, selectedGroup, activationTimestamp and is answered neither by an
\* activation message nor by 'Invalid group number'.
C12_NumeralOnlyFromOwnerWhileInactive ==
    \A d \in Delivered :
        /\ IsDigits(Trim(deliveries[d].text))
        /\ Examined(d)
        /\ ~SentByOwner(d) \/ fx[d].snap.active
        => /\ fx[d].changes = 0
           /\ \A k \in Sends(d) :
                 outbound[k].kind \notin {"activated", "invalid", "clearfailed"}

\* a non-owner's numeral passed the skips while the session was inactive, and
\* an owner's numeral passed them while the session was Active
C12_Witness ==
    /\ \E d \in Delivered :
        /\ IsDigits(Trim(deliveries[d].text))
        /\ ~SentByOwner(d)
        /\ fx[d].outcome = "in"
        /\ ~fx[d].snap.active
        /\ fx[d].done
    /\ \E d \in Delivered :
        /\ IsDigits(Trim(deliveries[d].text))
        /\ SentByOwner(d)
        /\ fx[d].outcome = "in"
        /\ fx[d].snap.active
        /\ fx[d].done

(***************************************************************************)
(* C13.  processedMessages never holds more than 200 message IDs.          *)
(***************************************************************************)
\* C13: in every state between two uninterrupted runs of the handler, hence
\* after the dedup step of every message, the processedMessages of every
\* instance holds at most 200 message IDs.
C13_DedupBounded == \A i \in Insts : Len(processedMessages[i]) <= DedupCapacity

\* more than 200 message IDs were recorded and the set holds 200
C13_Witness ==
    /\ inserted[cur] > DedupCapacity
    /\ Len(processedMessages[cur]) = DedupCapacity

(***************************************************************************)
(* C14.  A message's effects on the state precede its first await.         *)
(***************************************************************************)
\* C14: once the handler has reached a message and gone through the step that
\* ends at the message's first await, no later step records the message in
\* processedMessages or makes it change isActive, selectedGroup or
\* activationTimestamp: after a suspension the message causes sends only.
C14_EffectsBeforeFirstAwait ==
    [][ \A d \in 1..Len(fx) :
          Examined(d) =>
              /\ fx'[d].changes = fx[d].changes
              /\ fx'[d].seq = fx[d].seq
              /\ fx'[d].touched = fx[d].touched ]_vars

(***************************************************************************)
(* C15.  A failing transport call is contained.                            *)
(***************************************************************************)
\* C15: whatever transport call fails, every delivered message either belongs
\* to the batch of a running invocation of the handler, which is through with
\* it if it has passed it, or has been reached and finished by an invocation
\* that returned normally from its batch: no message of the batch or of a
\* later batch is left unhandled and no invocation ends by rejection.
C15_FailureContained ==
    \A d \in Delivered :
        \/ \E h \in handlers : \E k \in 1..Len(h.batch) :
              /\ h.batch[k] = d
              /\ k < h.pos => Examined(d) /\ fx[d].done
        \/ Examined(d) /\ fx[d].done /\ fx[d].end.reached

\* a transport call failed for the first message of a batch, the invocation
\* went on to the second message of the batch, and a message of a later batch
\* was taken after that
C15_Witness ==
    \E h \in handlers :
        /\ h.pos = 2
        /\ fx[h.batch[1]].failed
        /\ fx[h.batch[1]].done
        /\ fx[h.batch[2]].seq > 0
        /\ \E d \in Delivered :
              /\ d > h.batch[1] /\ d > h.batch[2]
              /\ fx[d].seq > fx[h.batch[2]].seq

(***************************************************************************)
(* C16.  The correction is the unperturbed token sequence.                 *)
(***************************************************************************)
\* C16: the text of a correction is the single-space join of the tokens
\* extracted from the triggering text, in their order and unmodified, whatever
\* mistake was applied to the reply; and generateMistakeResponse leaves the
\* token sequence it was given as it was.
C16_CorrectionIsOriginal ==
    /\ engine.stage = "corrected" =>
          engine.correctionText = JoinSpace(extractPotentialCharacters(engine.text))
    /\ engine.stage = "mistake" => engine.mistake.given = engine.characterNames

\* a reply with a mistake differed from the original tokens and was corrected
C16_Witness ==
    /\ engine.stage = "corrected"
    /\ engine.responseData.text # JoinSpace(engine.characterNames)
    /\ Len(engine.characterNames) > 1
    /\ engine.correctionText = JoinSpace(engine.characterNames)

(***************************************************************************)
(* C17.  One correction at most, for a mistaken reply, after the reply.    *)
(***************************************************************************)
\* the corrections sent for delivery d
Corrections(d) == { k \in Sends(d) : outbound[k].kind = "correction" }

\* the correction timers pending for delivery d
Pending(d) == { t \in timers : t.d = d }

\* C17: a reply has at most one correction, sent or pending; a correction, sent
\* or pending, follows a reply to the same message that was sent to the same
\* chat; a correction is scheduled only in the step in which the sendMessage of
\* a reply whose plan has isMistake = true returns, and is sent only by a
\* pending timer.
C17_OneCorrectionAfterMistakenReply ==
    /\ [](\A d \in Delivered :
            /\ Cardinality(Corrections(d)) + Cardinality(Pending(d)) <= 1
            /\ \A k \in Corrections(d) :
                  \E j \in Replies(d) : j < k /\ outbound[j].to = outbound[k].to
            /\ \A t \in Pending(d) :
                  \E j \in Replies(d) : outbound[j].to = t.to)
    /\ [][ /\ \A t \in timers' \ timers :
                 \E h \in handlers \ handlers' :
                     /\ h.pc = "send"
                     /\ h.out.kind = "reply"
                     /\ h.plan.isMistake
                     /\ h.batch[h.pos] = t.d
                     /\ h.out.to = t.to
                     /\ Len(outbound') = Len(outbound) + 1
                     /\ outbound'[Len(outbound')].kind = "reply"
                     /\ outbound'[Len(outbound')].d = t.d
           /\ \A k \in (Len(outbound) + 1)..Len(outbound') :
                 outbound'[k].kind = "correction" =>
                     \E t \in timers \ timers' :
                         t.d = outbound'[k].d /\ t.to = outbound'[k].to ]_vars

\* a reply was sent, its correction was scheduled and then sent, and no
\* timer is left for it
C17_Witness ==
    \E d \in Delivered :
        /\ Cardinality(Replies(d)) = 1
        /\ Cardinality(Corrections(d)) = 1
        /\ Pending(d) = {}

(***************************************************************************)
(* C18.  A scheduled correction is neither cancelled nor redirected.       *)
(***************************************************************************)
\* C18: a step leaves every pending correction pending, or sends it, with the
\* text it was scheduled with, to the chat of the reply it corrects, or its
\* sendMessage fails; and every pending correction is eventually fired.  No
\* '.x', no selection and no hot reload in between cancels or redirects it.
C18_CorrectionUnconditional ==
    /\ [][ \A t \in timers :
              \/ t \in timers'
              \/ outbound' = Append(outbound, [to |-> t.to, kind |-> "correction",
                                               body |-> t.body, d |-> t.d])
              \/ outbound' = outbound /\ events' = events + 1 ]_vars
    /\ (timers # {}) ~> (timers = {})

\* a correction was sent to the group of its reply after an owner's '.x',
\* delivered after the reply, had unbound the session
C18_Witness ==
    \E d \in Delivered : \E k \in Corrections(d) :
        /\ outbound[k].to = deliveries[d].remoteJid
        /\ \E x \in Delivered : \E j \in Sends(x) :
              /\ x > d
              /\ outbound[j].kind = "deactivated"
              /\ \A r \in Replies(d) : r < j
              /\ j < k
        /\ ~isActive[fx[d].inst]

(***************************************************************************)
(* C19.  A reply in flight survives a deactivation.                        *)
(***************************************************************************)
\* C19: a step leaves every invocation that is suspended in the delay and the
\* send of a detection reply as it is, or sends that reply, with the text
\* planned, to the chat the message came from, or its sendMessage fails; an
\* owner's '.x' handled in between does not withdraw the reply.
C19_ReplyInFlightIsSent ==
    [][ \A h \in handlers :
          h.pc = "send" /\ h.out.kind = "reply" =>
              \/ h \in handlers'
              \/ outbound' = Append(outbound,
                                    [to |-> deliveries[h.batch[h.pos]].remoteJid,
                                     kind |-> "reply", body |-> h.plan.text,
                                     d |-> h.batch[h.pos]])
              \/ outbound' = outbound /\ events' = events + 1 ]_vars

\* a message passed the gate while the session was Active, an owner's '.x' of
\* a later batch was handled and confirmed, and then the reply was sent to the
\* message's group, the session being Unbound
C19_Witness ==
    \E d \in Delivered : \E k \in Replies(d) :
        /\ fx[d].snap.active
        /\ outbound[k].to = deliveries[d].remoteJid
        /\ \E x \in Delivered : \E j \in Sends(x) :
              /\ x > d
              /\ SentByOwner(x)
              /\ outbound[j].kind = "deactivated"
              /\ j < k
        /\ ~isActive[fx[d].inst]
        /\ selectedGroup[fx[d].inst] = Null

(***************************************************************************)
(* C20.  Typo mode keeps the token count and the short tokens.             *)
(***************************************************************************)
\* C20: a result of generateMistakeResponse in typo mode has as many tokens as
\* the input, differs from the input in at most one token, and leaves every
\* token of one or two characters as it was, whatever the random draws.
C20_TypoKeepsCountAndShortTokens ==
    engine.stage = "mistake" /\ engine.mistake.mistakeType = "typo" =>
        LET characters == engine.mistake.characters
            given == engine.characterNames
        IN  /\ Len(characters) = Len(given)
            /\ Cardinality({ k \in 1..Len(given) : characters[k] # given[k] }) <= 1
            /\ \A k \in 1..Len(given) : Len(given[k]) <= 2 => characters[k] = given[k]

\* typo mode changed the three-character token of an input that also holds a
\* two-character token
C20_Witness ==
    /\ engine.stage = "mistake"
    /\ engine.mistake.mistakeType = "typo"
    /\ \E k, j \in 1..Len(engine.characterNames) :
          /\ Len(engine.characterNames[k]) = 3
          /\ engine.mistake.characters[k] # engine.characterNames[k]
          /\ Len(engine.characterNames[j]) = 2

(***************************************************************************)
(* C21.  The delay of a delayed mistake.                                   *)
(***************************************************************************)
\* C21: when generateMistakeResponse took its delay_mistake branch for the
\* reply, the delay the pipeline waits before the send is exactly
\* 3 * (base + (tokenCount - 1) * perToken + r), three times what a reply
\* without a mistake gets for the same token count and the same draw r.
C21_DelayedMistakeTripled ==
    engine.stage = "delayed" /\ engine.mistake.branch = "delay_mistake"
    => /\ engine.delay =
             3 * (baseDelay
                  + (engine.responseData.characterCount - 1) * perCharacterDelay
                  + engine.randomVariation)
       /\ engine.delay =
             3 * getAdaptiveDelay(engine.responseData.characterCount, FALSE, "none",
                                  engine.randomVariation)

(***************************************************************************)
(* C22.  The delay grows with the token count.                             *)
(***************************************************************************)
\* C22: for the mistake state and the draw of the delay just computed, one
\* more token gives a strictly longer delay, in both copies of
\* getAdaptiveDelay; and so does every count from 1 to MaxCount, for either
\* value of isMistake, with the mistakeType the engine produced and with
\* 'delay_mistake'.
C22_DelayIncreasing ==
    engine.stage = "delayed" =>
        LET r == engine.responseData
            v == engine.randomVariation
        IN  /\ getAdaptiveDelay(r.characterCount + 1, r.isMistake, r.mistakeType, v)
                  > engine.delay
            /\ \A n \in 1..MaxCount : \A isMistake \in BOOLEAN :
                \A mistakeType \in {r.mistakeType, "delay_mistake"} :
                  /\ getAdaptiveDelay(n + 1, isMistake, mistakeType, v)
                        > getAdaptiveDelay(n, isMistake, mistakeType, v)
                  /\ getAdaptiveDelayOther(n + 1, isMistake, mistakeType, v)
                        > getAdaptiveDelayOther(n, isMistake, mistakeType, v)

\* the delay of a reply of three tokens was computed with the highest draw
C22_Witness ==
    /\ engine.stage = "delayed"
    /\ engine.responseData.characterCount = 3
    /\ engine.randomVariation = randomVariationRange - 1
    /\ engine.delay = baseDelay + 2 * perCharacterDelay + randomVariationRange - 1

(***************************************************************************)
(* C23.  A text without a pair of asterisks is never answered.             *)
(***************************************************************************)
\* the text has an asterisk, one or more characters other than an asterisk,
\* and an asterisk, in a row
HasPair(t) ==
    \E i, j \in 1..Len(t) :
        /\ j > i + 1
        /\ t[i] = "*" /\ t[j] = "*"
        /\ \A k \in (i + 1)..(j - 1) : t[k] # "*"

\* C23: a delivered text without such a substring (no asterisk, one unmatched
\* asterisk, adjacent asterisks only) has an empty token sequence, and in no
\* session state is a reply or a correction sent, in flight or scheduled for
\* it.
C23_NoPairNoReply ==
    \A d \in Delivered :
        ~HasPair(deliveries[d].text)
        => /\ extractPotentialCharacters(deliveries[d].text) = <<>>
           /\ \A k \in Sends(d) : outbound[k].kind \notin {"reply", "correction"}
           /\ Pending(d) = {}
           /\ \A h \in handlers :
                 h.pos <= Len(h.batch) /\ h.batch[h.pos] = d => h.out.kind # "reply"

\* a text of asterisks without a pair, and a numeral of a sender who is no
\* owner, came from the bound group while the session was Active, passed every
\* skip, and the handler is through with them
C23_Witness ==
    \A text \in {UnpairedText, <<"1">>} :
        \E d \in Delivered :
            /\ deliveries[d].text = text
            /\ ~SentByOwner(d)
            /\ fx[d].outcome = "in"
            /\ fx[d].snap.active
            /\ fx[d].snap.selected = deliveries[d].remoteJid
            /\ deliveries[d].ts >= fx[d].snap.activation
            /\ deliveries[d].text # fx[d].snap.lastText
            /\ fx[d].done

(***************************************************************************)
(* C24.  Asterisks are paired left to right without overlap.               *)
(***************************************************************************)
\* the pairs <<i, j>> of asterisks of t with one or more characters and no
\* asterisk between them
TightPairs(t) ==
    { p \in (1..Len(t)) \X (1..Len(t)) :
        /\ p[2] > p[1] + 1
        /\ t[p[1]] = "*" /\ t[p[2]] = "*"
        /\ \A k \in (p[1] + 1)..(p[2] - 1) : t[k] # "*" }

\* C is the pairing made from left to right: a pair is taken exactly when its
\* opening asterisk does not close a pair that was taken
PairedLeftToRight(t, C) ==
    \A p \in TightPairs(t) : p \in C <=> ~ \E q \in C : q[2] = p[1]

\* the words between the pairs of C, from left to right
RECURSIVE SpanTokens(_, _)
SpanTokens(t, C) ==
    IF C = {} THEN <<>>
    ELSE LET p == CHOOSE p \in C : \A q \in C : p[1] <= q[1]
             span == SubSeq(t, p[1] + 1, p[2] - 1)
         IN  SplitWords(SelectSeq(span, KeptChar), <<>>) \o SpanTokens(t, C \ {p})

\* C24: the tokens extracted from a text are the words between the asterisk
\* pairs made from left to right without overlap, in their order in the
\* text: text between a closing asterisk and the next opening one gives no
\* token ('*a*b*c*' gives a and c only), and neither does text after an
\* unmatched asterisk.
C24_PairedLeftToRight ==
    engine.stage # "text" =>
        /\ \E C \in SUBSET TightPairs(engine.text) :
              /\ PairedLeftToRight(engine.text, C)
              /\ engine.characterNames = SpanTokens(engine.text, C)
        /\ engine.text = AlternatingText =>
              engine.characterNames = << <<"a">>, <<"c">> >>
        /\ engine.text = <<"*", "a", "*", "b", "*">> =>
              engine.characterNames = << <<"a">> >>

\* '*a*b*c*' gave the two tokens a and c
C24_Witness ==
    /\ engine.stage = "names"
    /\ engine.text = AlternatingText
    /\ engine.characterNames = << <<"a">>, <<"c">> >>

(***************************************************************************)
(* C25.  Without a mistake the reply is the token sequence as extracted.   *)
(***************************************************************************)
\* the words between the asterisk pairs of t made from left to right
WordsBetweenPairs(t) ==
    SpanTokens(t, CHOOSE C \in SUBSET TightPairs(t) : PairedLeftToRight(t, C))

\* C25: when formatResponse makes no mistake, the text of the plan is the
\* single-space join of all the words between the asterisk pairs of the
\* triggering text, in order, none dropped whatever its length or letters,
\* and characterCount is their number.
C25_PlainReplyIsAllTokens ==
    engine.stage \in {"plan", "delayed"} /\ ~engine.responseData.isMistake =>
        LET tokens == WordsBetweenPairs(engine.text)
        IN  /\ engine.responseData.text = JoinSpace(tokens)
            /\ SplitWords(engine.responseData.text, <<>>) = tokens
            /\ engine.responseData.characterCount = Len(tokens)

\* the plan without a mistake for '*a/b-c*' is 'a b c' with a count of three,
\* all three tokens being single letters
C25_Witness ==
    /\ engine.stage = "plan"
    /\ ~engine.responseData.isMistake
    /\ engine.text = <<"*", "a", "/", "b", "-", "c", "*">>
    /\ engine.responseData.text = <<"a", " ", "b", " ", "c">>
    /\ engine.responseData.characterCount = 3

(***************************************************************************)
(* C26.  normalizeArabicText is idempotent.                                *)
(***************************************************************************)
\* C26: for every string over the code units normalizeArabicText rewrites and
\* ASCII letters, normalizing the normalized string gives the normalized
\* string, in both copies of the function.
C26_Idempotent ==
    resolver.stage = "twice" =>
        /\ resolver.twice = resolver.once
        /\ resolver.twiceOther = resolver.onceOther

(***************************************************************************)
(* C27.  The lookup takes the first hit: static, learned, services.        *)
(***************************************************************************)
\* the requests issued for the n-th search
RequestsOf(n) == { r \in resolver.requests : r.search = n }

\* the name the n-th search was called with
NameOf(n) ==
    IF n <= Len(resolver.returns)
    THEN resolver.returns[n].characterName
    ELSE resolver.characterName

\* C27: a search whose normalized name is a key of arabicCharacterNames
\* returns that entry with confidence 1.0 and issues no request; otherwise,
\* if it is a key of learnedCharacters, it returns the learned entry and
\* issues no request; only a search that misses both has requests, one or
\* more to each service, and it returns null exactly when no request matched.
C27_FirstHitWins ==
    LET static == resolver.arabicCharacterNames
        learned == resolver.learnedCharacters
    IN  /\ \A n \in 1..Len(resolver.returns) :
              LET result == resolver.returns[n].result
                  key == normalizeArabicText(NameOf(n))
              IN  /\ key \in DOMAIN static =>
                        /\ result = [name |-> static[key], confidence |-> 10,
                                     source |-> "Local Mapping"]
                        /\ RequestsOf(n) = {}
                  /\ key \notin DOMAIN static /\ key \in DOMAIN learned =>
                        /\ result # Null
                        /\ result.name = learned[key].name
                        /\ result.confidence = learned[key].confidence
                        /\ result.source = "Learned Characters"
                        /\ RequestsOf(n) = {}
                  /\ key \notin DOMAIN static \cup DOMAIN learned =>
                        /\ \A api \in APIs : \E r \in RequestsOf(n) : r.api = api
                        /\ result = Null <=>
                              ~ \E r \in RequestsOf(n) : r.outcome = "match"
        /\ \A r \in resolver.requests :
              normalizeArabicText(NameOf(r.search))
                  \notin DOMAIN static \cup DOMAIN learned

\* a name that is a key of both Maps was answered from arabicCharacterNames,
\* and a name that is a key of neither was answered null after requests
C27_Witness ==
    \E n, m \in 1..Len(resolver.returns) :
        /\ normalizeArabicText(NameOf(n)) \in DOMAIN resolver.arabicCharacterNames
        /\ normalizeArabicText(NameOf(n)) \in DOMAIN resolver.learnedCharacters
        /\ resolver.returns[n].result.source = "Local Mapping"
        /\ resolver.returns[m].result = Null
        /\ RequestsOf(m) # {}

(***************************************************************************)
(* C28.  searchSingleAPI retries on a rate limit only, three attempts.     *)
(***************************************************************************)
\* the call of searchSingleAPI that issued request r has taken its response,
\* and the search it belongs to is the latest
Answered(r) ==
    /\ resolver.stage \in {"searching", "returned"}
    /\ r.search = resolver.searches
    /\ ~ (resolver.calls[r.api].pc = "request" /\ resolver.calls[r.api].attempt = r.attempt)

\* C28: a call of searchSingleAPI issues at most 3 requests; a request other
\* than the first follows a rate-limit error of the attempt before it, by
\* no less than 1800 ms doubled with each attempt; after a response without
\* a match or another error the call has ended with null and issues no
\* request any more, and it ends with null after a third rate-limit error.
C28_RetryOnRateLimitOnly ==
    \A r \in resolver.requests :
        /\ r.attempt \in 1..3
        /\ r.attempt > 1 =>
              \E q \in RequestsOf(r.search) :
                  /\ q.api = r.api
                  /\ q.attempt = r.attempt - 1
                  /\ q.outcome = "ratelimit"
                  /\ r.at >= q.answered + 1800 * Pow2(q.attempt - 1)
        /\ r.outcome \in {"nomatch", "error", "match"} =>
              ~ \E q \in RequestsOf(r.search) : q.api = r.api /\ q.attempt > r.attempt
        /\ Answered(r) /\ r.outcome \in {"nomatch", "error"} =>
              /\ resolver.calls[r.api].pc = "done"
              /\ resolver.calls[r.api].result = Null
        /\ Answered(r) /\ r.outcome = "ratelimit" /\ r.attempt = 3 =>
              /\ resolver.calls[r.api].pc \in {"backoff", "done"}
              /\ resolver.calls[r.api].result = Null

\* in one search a call ended with null after three rate-limit errors and
\* another call ended with null after an error that is no rate limit
C28_Witness ==
    \E api, other \in APIs :
        /\ resolver.calls[api].pc = "done"
        /\ resolver.calls[api].result = Null
        /\ \A attempt \in 1..3 :
              \E r \in RequestsOf(resolver.searches) :
                  r.api = api /\ r.attempt = attempt /\ r.outcome = "ratelimit"
        /\ resolver.calls[other].pc = "done"
        /\ resolver.calls[other].result = Null
        /\ \E r \in RequestsOf(resolver.searches) :
              r.api = other /\ r.attempt = 1 /\ r.outcome = "error"

(***************************************************************************)
(* C29.  Requests are minAPIDelay apart.                                   *)
(***************************************************************************)
\* C29: any two requests the instance issued, to the same service or not, in
\* one search or not, answered with a match or not, were issued 900 ms or
\* more apart.
C29_RequestsSpaced ==
    \A r, q \in resolver.requests :
        r # q => r.at - q.at >= minAPIDelay \/ q.at - r.at >= minAPIDelay

(***************************************************************************)
(* C30.  A failed load leaves both Maps empty and the instance usable.     *)
(***************************************************************************)
\* reading or parsing the mappings file failed at some point of the load
LoadFailed ==
    \/ resolver.file.kind \in {"unreadable", "malformed", "null"}
    \/ resolver.file.kind = "object" /\ resolver.file.late

\* C30: after a load that failed at any point, both arabicCharacterNames and
\* learnedCharacters are empty, the load was not rejected, and a search on
\* the instance works: it finds both Maps empty and asks the three services.
C30_FailedLoadStartsEmpty ==
    resolver.stage # "constructed" /\ LoadFailed =>
        /\ DOMAIN resolver.arabicCharacterNames = {}
        /\ DOMAIN resolver.learnedCharacters = {}
        /\ ~resolver.rejected
        /\ resolver.stage \in {"ready", "searching"}
        /\ resolver.stage = "searching" =>
              \A api \in APIs : \E r \in resolver.requests : r.api = api

\* the file held both tables, the load failed after arabicCharacterNames was
\* assigned, and a search for 'Ba' went to the services
C30_Witness ==
    /\ resolver.file.kind = "object"
    /\ resolver.file.static
    /\ resolver.file.late
    /\ resolver.stage = "searching"
    /\ resolver.characterName = <<"B", "a">>

(***************************************************************************)
(* C31.  processedMessages evicts in insertion order.                      *)
(***************************************************************************)
\* the deliveries whose message ID instance i recorded
Recorded(i) == { d \in Delivered : fx[d].inst = i /\ fx[d].outcome = "in" }

\* message IDs the instance of d1 recorded after that of d1 and before it
\* examined d2, in a run that examines the deliveries in their order
RecordedAfter(d1, d2) ==
    Cardinality({ d \in Recorded(fx[d1].inst) : fx[d].seq > fx[d1].seq /\ d < d2 })

\* C31: processedMessages holds the IDs of the newest insertions, at most 200
\* of them, in insertion order: each insertion beyond 200 evicts exactly one
\* entry, the earliest inserted of those present.  Hence a redelivered message
\* is skipped as a duplicate when fewer than 200 other IDs were inserted
\* after its own, and is recorded anew when 200 or more were.
C31_EvictsOldest ==
    /\ \A i \in Insts :
        LET P == processedMessages[i]
            n == inserted[i]
        IN  /\ Len(P) = (IF n < DedupCapacity THEN n ELSE DedupCapacity)
            /\ \A j \in 1..Len(P) :
                  \E d \in Recorded(i) :
                      /\ fx[d].seq = n - Len(P) + j
                      /\ P[j] = MessageId(deliveries[d])
    /\ \A d1, d2 \in Delivered :
        /\ d1 < d2
        /\ SameMessage(d1, d2)
        /\ fx[d1].inst = fx[d2].inst
        /\ fx[d1].outcome = "in"
        /\ fx[d2].outcome \in {"dup", "in"}
        => (fx[d2].outcome = "dup" <=> RecordedAfter(d1, d2) < DedupCapacity)

\* the first message came again after 199 other IDs and was skipped as a
\* duplicate, and the next insertion evicted its ID
C31_Witness ==
    /\ inserted[cur] = DedupCapacity + 1
    /\ \E d \in Delivered :
        /\ d > 1
        /\ SameMessage(1, d)
        /\ fx[d].outcome = "dup"
        /\ RecordedAfter(1, d) = DedupCapacity - 1
    /\ ~IsDuplicate(processedMessages[cur], MessageId(deliveries[1]))

(***************************************************************************)
(* C32.  The size and content of a partial response.                       *)
(***************************************************************************)
\* how many entries of the sequence are the token
Occurrences(tokens, token) ==
    Cardinality({ k \in 1..Len(tokens) : tokens[k] = token })

\* C32 as stated: a result of generateMistakeResponse in its partial-response
\* mode for n >= 1 tokens has exactly max(1, floor(7n / 10)) tokens, and no
\* token occurs in it more often than in the input.
C32_PartialKeepsSeventyPercent ==
    engine.stage = "mistake" /\ engine.mistake.branch = "partial_response" =>
        LET given == engine.characterNames
            kept == engine.mistake.characters
            n == Len(given)
        IN  /\ n >= 1
            /\ Len(kept) = Max(1, (7 * n) \div 10)
            /\ \A k \in 1..Len(kept) :
                  Occurrences(kept, kept[k]) <= Occurrences(given, kept[k])

(***************************************************************************)
(* C33.  lastMessageTimestamp only grows, and an older message is skipped. *)
(***************************************************************************)
\* delivery d was examined when its instance had recorded a newer message
OlderWhenExamined(d) == Examined(d) /\ deliveries[d].ts < fx[d].snap.last

\* C33: the lastMessageTimestamp of an instance never decreases, and a message
\* whose timestamp is lower than lastMessageTimestamp when it is examined is
\* skipped entirely: nothing is sent for it, no send fails for it, no timer
\* is set for it, the session is not changed, its ID is not recorded and
\* lastMessageTimestamp stays, whoever sent it and whatever its text.
C33_OlderSkipped ==
    /\ [](\A d \in Delivered :
            OlderWhenExamined(d)
            => /\ Sends(d) = {}
               /\ Pending(d) = {}
               /\ ~fx[d].failed
               /\ fx[d].changes = 0
               /\ ~fx[d].touched
               /\ fx[d].seq = 0
               /\ fx[d].done)
    /\ [][\A i \in Insts : lastMessageTimestamp'[i] >= lastMessageTimestamp[i]]_vars

\* while the session was Active, a '.x' of an owner arrived together with a
\* newer message of the bound group and was examined after it, neither stale
C33_Witness ==
    \E d, e \in Delivered :
        /\ OlderWhenExamined(d)
        /\ AgeWhenHandled(d) <= MaxAge
        /\ ~deliveries[d].fromMe
        /\ SentByOwner(d)
        /\ IsDeactivateCmd(deliveries[d].text)
        /\ fx[d].snap.active
        /\ isActive[fx[d].inst]
        /\ fx[e].outcome = "in"
        /\ fx[e].inst = fx[d].inst
        /\ fx[e].snap.at = fx[d].snap.at
        /\ deliveries[e].ts = fx[d].snap.last
        /\ deliveries[e].remoteJid = fx[d].snap.selected

(***************************************************************************)
(* C34.  A text equal to lastProcessedMessage is not answered.             *)
(***************************************************************************)
\* delivery d reached processMessage with the text its instance processed last
RepeatsLastText(d) ==
    fx[d].branch = "detect" /\ deliveries[d].text = fx[d].snap.lastText

\* C34: a message that reaches processMessage with a text identical to
\* lastProcessedMessage gets no reply and no correction, whatever its ID and
\* whatever was handled since that text was processed; and a step changes
\* lastProcessedMessage only to the text of a message that reached
\* processMessage and yields at least one token.
C34_RepeatedTextUnanswered ==
    /\ [](\A d \in Delivered :
            RepeatsLastText(d)
            => /\ Sends(d) = {}
               /\ Pending(d) = {}
               /\ ~fx[d].failed)
    /\ [][\A i \in Insts :
            lastProcessedMessage'[i] # lastProcessedMessage[i]
            => /\ extractPotentialCharacters(lastProcessedMessage'[i]) # <<>>
               /\ \E d \in Delivered :
                     /\ fx[d].inst = i
                     /\ fx[d].branch = "detect"
                     /\ deliveries[d].text = lastProcessedMessage'[i]]_vars

\* a text was answered in the first group; the owner deactivated and bound the
\* second group; the same text came there as another message, reached
\* processMessage and was left unanswered
C34_Witness ==
    \E d1, dx, ds, d2 \in Delivered :
        /\ d1 < dx /\ dx < ds /\ ds < d2
        /\ Replies(d1) # {}
        /\ fx[dx].branch = "deactivate"
        /\ fx[ds].branch = "select"
        /\ fx[ds].changes > 0
        /\ RepeatsLastText(d2)
        /\ fx[d2].done
        /\ deliveries[d2].text = deliveries[d1].text
        /\ ~SameMessage(d1, d2)
        /\ deliveries[d2].remoteJid # deliveries[d1].remoteJid

(***************************************************************************)
(* C35.  A deactivation handled after a selection was received.            *)
(***************************************************************************)
\* C35: when an owner's numeral was received as a selection, an owner's '.x'
\* was handled after it by the same instance, no numeral was received as a
\* selection after the '.x', and every invocation of the handler has
\* returned, the instance is Unbound: isActive = false, selectedGroup = null.
C35_DeactivationWins ==
    \A d1, d2 \in Delivered :
        /\ d1 < d2
        /\ fx[d1].branch = "select"
        /\ fx[d2].branch = "deactivate"
        /\ fx[d1].inst = fx[d2].inst
        /\ \A d \in Delivered : d > d2 => Examined(d) /\ fx[d].branch # "select"
        /\ handlers = {}
        => /\ ~isActive[fx[d2].inst]
           /\ selectedGroup[fx[d2].inst] = Null

(***************************************************************************)
(* C36.  No rebinding while Active.                                        *)
(***************************************************************************)
\* C36: a step taken while an instance is Active neither changes its
\* selectedGroup to another group nor stamps its activationTimestamp again.
C36_NoRebindWhileActive ==
    [][\A i \in Insts :
         isActive[i] /\ isActive'[i]
         => /\ selectedGroup'[i] = selectedGroup[i]
            /\ activationTimestamp'[i] = activationTimestamp[i]]_vars

(***************************************************************************)
(* C37.  A hot reload and the session.                                     *)
(***************************************************************************)
\* C37: the instance that replaces the current one in a hot reload starts
\* with the isActive, selectedGroup and activationTimestamp of the instance
\* it replaces.
C37_ReloadPreservesSession ==
    [][cur' # cur
       => /\ isActive'[cur'] = isActive[cur]
          /\ selectedGroup'[cur'] = selectedGroup[cur]
          /\ activationTimestamp'[cur'] = activationTimestamp[cur]]_vars

(***************************************************************************)
(* C38.  A group number outside the list.                                  *)
(***************************************************************************)
\* the invocation is about to send the refusal of a group number
Refusing(h) == h.pc = "send" /\ h.out.kind = "invalid"

\* the session of instance i is the same before and after the step
SessionKept(i) ==
    /\ isActive'[i] = isActive[i]
    /\ selectedGroup'[i] = selectedGroup[i]
    /\ activationTimestamp'[i] = activationTimestamp[i]

\* C38: when the group fetch of an owner's numeral, taken while the session
\* was not Active, returns and the number is 0 or greater than the number of
\* groups returned (none when the fetch failed), the step leaves the session
\* as it was and what the invocation sends next is 'Invalid group number!'
\* to the sender's chat, nothing having been sent for the message before;
\* the step in which that send returns leaves the session as it was, adds
\* that one reply to the outbound messages unless the transport call threw
\* (one more failing call of the surroundings, recorded for the message),
\* and is done with the message; and nothing else is ever sent for it.
C38_InvalidNumberRefused ==
    /\ [][\A h \in handlers, h2 \in handlers' :
            /\ h.pc = "sel_fetch"
            /\ h2.batch = h.batch /\ h2.pos = h.pos /\ h2.pc = "send"
            /\ ~fx[h.batch[h.pos]].snap.active
            /\ LET n == ParseInt(Trim(deliveries[h.batch[h.pos]].text))
               IN  n = 0 \/ n > Len(h2.groupsL)
            => /\ SessionKept(h.inst)
               /\ h2.out = [to |-> deliveries[h.batch[h.pos]].remoteJid,
                            kind |-> "invalid", body |-> <<>>]
               /\ h2.after = "next"
               /\ Sends(h.batch[h.pos]) = {}
               /\ outbound' = outbound]_vars
    /\ [][\A h \in handlers :
            Refusing(h) /\ h \notin handlers'
            => LET d == h.batch[h.pos]
               IN  /\ SessionKept(h.inst)
                   /\ fx'[d].done
                   /\ \/ outbound' = Append(outbound, [to |-> deliveries[d].remoteJid,
                                                        kind |-> "invalid",
                                                        body |-> <<>>, d |-> d])
                      \/ outbound' = outbound /\ events' = events + 1 /\ fx'[d].failed]_vars
    /\ [](\A d \in Delivered :
            (\E k \in Sends(d) : outbound[k].kind = "invalid")
            => /\ Cardinality(Sends(d)) = 1
               /\ Pending(d) = {}
               /\ fx[d].changes = 0
               /\ fx[d].done)

\* the owner's '0' was refused, the owner's '2' was refused after the group
\* fetch had failed, and the session is still not Active
C38_Witness ==
    /\ ~isActive[cur]
    /\ selectedGroup[cur] = Null
    /\ \E d1, d2 \in Delivered :
        /\ deliveries[d1].text = <<"0">>
        /\ deliveries[d2].text = <<"2">>
        /\ \A d \in {d1, d2} :
              /\ fx[d].branch = "select"
              /\ fx[d].done
              /\ \E k \in Sends(d) : outbound[k].kind = "invalid"
        /\ fx[d2].failed

(***************************************************************************)
(* C39.  The agent's own messages and messages without text.               *)
(***************************************************************************)
\* C39: for a message that is self-authored or has no text content nothing is
\* sent, no send fails, no timer is set, the session is not changed, and
\* neither lastMessageTimestamp nor processedMessages changes, whatever its
\* text, its sender and the session; the handler is done with it at once.
C39_OwnAndEmptySkipped ==
    \A d \in Delivered :
        Examined(d) /\ (deliveries[d].fromMe \/ deliveries[d].text = <<>>)
        => /\ Sends(d) = {}
           /\ Pending(d) = {}
           /\ ~fx[d].failed
           /\ fx[d].changes = 0
           /\ ~fx[d].touched
           /\ fx[d].seq = 0
           /\ fx[d].done

\* while the session was Active, a self-authored '.x' from an owner's chat,
\* or a self-authored text with a token in the bound group, was examined,
\* fresh and not older than lastMessageTimestamp; and a message without text
\* was examined in the bound group
C39_Witness ==
    /\ \E d \in Delivered :
        /\ Examined(d)
        /\ deliveries[d].fromMe
        /\ deliveries[d].ts >= fx[d].snap.last
        /\ fx[d].snap.active
        /\ \/ SentByOwner(d) /\ IsDeactivateCmd(deliveries[d].text)
           \/ /\ deliveries[d].text = TokenText
              /\ deliveries[d].remoteJid = fx[d].snap.selected
    /\ \E d \in Delivered :
        /\ Examined(d)
        /\ ~deliveries[d].fromMe
        /\ deliveries[d].text = <<>>
        /\ fx[d].snap.active
        /\ deliveries[d].remoteJid = fx[d].snap.selected

(***************************************************************************)
(* C40.  The two tables are read-only after the load.                      *)
(***************************************************************************)
\* the entries of a Map
EntriesOf(map) == { <<k, map[k]>> : k \in DOMAIN map }

\* C40: no step after the load (a search answered from the Maps, a search
\* answered by a reference service, a wait, a retry, a save) changes
\* arabicCharacterNames or learnedCharacters, and the tables of the document
\* that saveCharacterMappings wrote have exactly the entries of the two Maps.
C40_TablesReadOnly ==
    /\ [][/\ resolver'.arabicCharacterNames = resolver.arabicCharacterNames
          /\ resolver'.learnedCharacters = resolver.learnedCharacters]_vars
    /\ [](resolver.written.saved =>
            /\ resolver.written.arabicCharacterNames
                   = EntriesOf(resolver.arabicCharacterNames)
            /\ resolver.written.learnedCharacters
                   = EntriesOf(resolver.learnedCharacters))

\* the Maps were loaded with one learned entry and no static one, a search for
\* a name in neither Map was answered by a reference service, and the tables
\* were saved
C40_Witness ==
    /\ DOMAIN resolver.learnedCharacters = { <<"b", "a">> }
    /\ DOMAIN resolver.arabicCharacterNames = {}
    /\ resolver.written.saved
    /\ \E k \in 1..Len(resolver.returns) :
          /\ resolver.returns[k].characterName = <<"x">>
          /\ resolver.returns[k].result # Null
          /\ resolver.returns[k].result.name = "found"
====
